---- MODULE Spec2Model ----
(***************************************************************************)
(* A model of the generation pipeline of AvA: the GenerationCoordinator    *)
(* (src/ava/services/generation_coordinator.py) and the ContextManager    *)
(* (src/ava/services/context_manager.py).                                  *)
(*                                                                         *)
(* Texts are sequences of one-character strings, so that the cleaning of   *)
(* a model response (strip + regular-expression search) is computed the    *)
(* way the code computes it.                                               *)
(***************************************************************************)
EXTENDS Integers, Sequences, FiniteSets, TLC

VARIABLES
    \* One invocation of coordinate_generation per run: its arguments, its
    \* locals and its position.
    pc,             \* "off", "idle", "planning", "loop", "streaming", "resolve", "done", "fatal",
                    \* "cancelled"
    plan,           \* the plan argument: plan['files'], a sequence of file_info
    existing_files, \* the existing_files argument
    custom_prompts, \* the custom_prompts argument: extension -> template
    context,        \* the current GenerationContext value
    generation_order,
    idx,            \* the loop position, i + 1
    generated_files_this_session,
    prompt,         \* _generate_single_file: the prompt built for the artifact in flight
    stream,         \* the increments stream_chat has still to yield
    file_content,   \* _generate_single_file: the text accumulated so far
    has_content,    \* generated_content is not None
    generated_content,
    result,         \* the mapping coordinate_generation returned
    \* Shared by the runs.
    heap,           \* the generation_session objects allocated so far, by reference
    project_active, \* project_manager.active_project_path is set
    \* What a run did, as an observer would record it.
    events,         \* strategy invocations, stores, context updates, skips, progress
    emitted,        \* stream_code_chunk events of the artifact in flight
    contexts,       \* every GenerationContext value the run produced
    \* The cleaning harness.
    clean_pc,       \* "off", "ready", "cleaned", "recleaned"
    clean_lead,     \* prose before the body / the fence
    clean_fenced,   \* whether the body is wrapped in a fence
    clean_tag,      \* the language tag of that fence
    clean_body,     \* the text T
    clean_trail,    \* prose after the body / the fence
    clean_out,      \* robust_clean_llm_output(input)
    clean_out2      \* robust_clean_llm_output(clean_out)

run_vars == <<pc, plan, existing_files, custom_prompts, context, generation_order, idx,
              generated_files_this_session, prompt, stream, file_content, has_content,
              generated_content, result, heap, project_active, events, emitted, contexts>>

clean_vars == <<clean_pc, clean_lead, clean_fenced, clean_tag, clean_body, clean_trail,
                clean_out, clean_out2>>

vars == <<run_vars, clean_vars>>

(***************************************************************************)
(* Characters and texts                                                    *)
(***************************************************************************)
\* One back-tick character (the character itself cannot be written in a string).
Backtick == "BQ"
Newline == "\n"
Space == " "

\* [a-zA-Z0-9_] of the fence regex; "a" stands for a lower-case letter,
\* "U" and "V" are the identifiers the symbol indexer can find.
WordChars == {"a", "U", "V"}
\* str.strip() with no argument removes leading and trailing whitespace.
WhitespaceChars == {Space, Newline}

IsWord(c) == c \in WordChars
IsSpace(c) == c \in WhitespaceChars

\* The characters the cleaning harness draws its texts from: a back-tick, a
\* newline, a blank, a word character and a character that is neither
\* ("+" as in the tag c++).
Alphabet == {Backtick, Newline, Space, "a", "+"}

MaxTextLen == 4

Texts(n) == UNION {[1..k -> Alphabet] : k \in 0..n}

Fence == <<Backtick, Backtick, Backtick>>

\* The opening delimiter line with the tag, T, the closing delimiter line.
Wrap(tag, T) == Fence \o tag \o <<Newline>> \o T \o <<Newline>> \o Fence

RECURSIVE LStrip(_)
LStrip(s) ==
    IF s = <<>> THEN s
    ELSE IF IsSpace(Head(s)) THEN LStrip(Tail(s)) ELSE s

RECURSIVE RStrip(_)
RStrip(s) ==
    IF s = <<>> THEN s
    ELSE IF IsSpace(s[Len(s)]) THEN RStrip(SubSeq(s, 1, Len(s) - 1)) ELSE s

\* str.strip()
Strip(s) == RStrip(LStrip(s))

Min(S) == CHOOSE x \in S : \A y \in S : x <= y
Max(S) == CHOOSE x \in S : \A y \in S : x >= y

(***************************************************************************)
(* code_block_regex: three back-ticks, an optional tag [a-zA-Z0-9_]*, a    *)
(* newline, a lazy group of any characters (re.DOTALL), a newline and      *)
(* three back-ticks.                                                       *)
(*                                                                         *)
(* A match is <<p, k, e>>: the opening back-ticks at p..p+2, a tag of k    *)
(* word characters, a newline at p+3+k, the group s[p+4+k .. e-1], and     *)
(* the closing newline and back-ticks at e..e+3.                           *)
(***************************************************************************)
FenceAt(s, p) ==
    /\ p >= 1
    /\ p + 2 <= Len(s)
    /\ s[p] = Backtick /\ s[p + 1] = Backtick /\ s[p + 2] = Backtick

TagAt(s, p, k) ==
    /\ p + 3 + k <= Len(s)
    /\ \A j \in 1..k : IsWord(s[p + 2 + j])
    /\ s[p + 3 + k] = Newline

CloseAt(s, e) ==
    /\ e + 3 <= Len(s)
    /\ s[e] = Newline
    /\ FenceAt(s, e + 1)

TagLengths(s, p) ==
    {k \in 0..Len(s) : TagAt(s, p, k) /\ \E e \in (p + 4 + k)..Len(s) : CloseAt(s, e)}

MatchStarts(s) == {p \in 1..Len(s) : FenceAt(s, p) /\ TagLengths(s, p) # {}}

\* re.search: the leftmost start; at it the greedy tag (the longest first) and
\* the lazy group (the shortest first). The result is group(1).
SearchGroup(s) ==
    LET p == Min(MatchStarts(s))
        k == Max(TagLengths(s, p))
        b == p + 4 + k
        e == Min({x \in b..Len(s) : CloseAt(s, x)})
    IN SubSeq(s, b, e - 1)

\* A variant that returns the group as matched, without the final strip().
robust_clean_llm_output_unstripped_group(content) ==
    LET c == Strip(content)
    IN IF MatchStarts(c) # {} THEN SearchGroup(c) ELSE c

robust_clean_llm_output(content) ==
    LET c == Strip(content)
    IN IF MatchStarts(c) # {} THEN Strip(SearchGroup(c)) ELSE c

(***************************************************************************)
(* Mappings (Python dicts) as functions                                    *)
(***************************************************************************)
EmptyMap == [k \in {} |-> k]

Put(m, k, v) == [x \in DOMAIN m \cup {k} |-> IF x = k THEN v ELSE m[x]]

Remove(m, k) == [x \in DOMAIN m \ {k} |-> m[x]]

\* dict.update
Update(m, n) == [x \in DOMAIN m \cup DOMAIN n |-> IF x \in DOMAIN n THEN n[x] ELSE m[x]]

(***************************************************************************)
(* Filenames are sequences of path tokens: names, "/" and extensions.      *)
(***************************************************************************)
Extensions == {".py", ".tscn", ".gd", ".txt", ".godot"}

FScene == <<"player", ".tscn">>
FModels == <<"models", ".py">>
FService == <<"pkg", "/", "service", ".py">>

Filenames == {FScene, FModels, FService}

\* Artifacts of the other kinds: scenes with other purposes, a script, a
\* Godot project file and a text file.
FLevel == <<"level", ".tscn">>
FMenu == <<"menu", ".tscn">>
FScript == <<"player", ".gd">>
FProject == <<"project", ".godot">>
FNotes == <<"notes", ".txt">>

DispatchFilenames == {FScene, FLevel, FMenu, FModels, FScript, FProject, FNotes}

\* Path(filename).suffix
Suffix(filename) ==
    IF Len(filename) > 1 /\ filename[Len(filename)] \in Extensions
    THEN filename[Len(filename)]
    ELSE ""

\* Path(filename).stem
Stem(filename) ==
    IF Len(filename) > 1 /\ filename[Len(filename)] \in Extensions
    THEN filename[Len(filename) - 1]
    ELSE IF filename = <<>> THEN "" ELSE filename[Len(filename)]

\* filename.endswith(ext)
EndsWith(filename, ext) == filename # <<>> /\ filename[Len(filename)] = ext

\* str.replace(old, new) on tokens; new = "" removes the token.
ReplaceToken(name, old, new) ==
    LET kept == IF new = "" THEN SelectSeq(name, LAMBDA t : t # old) ELSE name
    IN [j \in 1..Len(kept) |-> IF kept[j] = old THEN new ELSE kept[j]]

\* filename.replace('.py', '').replace('/', '.')
ModulePath(filename) == ReplaceToken(ReplaceToken(filename, ".py", ""), "/", ".")

(***************************************************************************)
(* The plan                                                                *)
(***************************************************************************)
PurposeOf(filename) ==
    CASE filename = FScene -> <<"Extends", "CharacterBody2D">>
      [] filename = FModels -> <<"data", "models">>
      [] filename = FService -> <<"service", "using", "models">>
      [] filename = FLevel -> <<"Root", "node", "is", "Node2D">>
      [] filename = FMenu -> <<"main", "menu">>
      [] filename = FScript -> <<"player", "script">>
      [] filename = FProject -> <<"project", "settings">>
      [] filename = FNotes -> <<"notes">>
      [] OTHER -> <<>>

FileInfo(filename) == [filename |-> filename, purpose |-> PurposeOf(filename)]

\* The planned artifacts in the order the plans list them.
Catalogue == <<FileInfo(FScene), FileInfo(FModels), FileInfo(FService)>>

RECURSIVE Pick(_, _)
\* The members of the sequence all whose positions are in keep, in order.
Pick(all, keep) ==
    IF all = <<>> THEN <<>>
    ELSE LET rest == Pick(SubSeq(all, 1, Len(all) - 1), keep)
         IN IF Len(all) \in keep THEN Append(rest, all[Len(all)]) ELSE rest

\* plan['files'] of the plans a run is given: distinct filenames.
Plans == {Pick(Catalogue, keep) : keep \in SUBSET (1..Len(Catalogue))}

PlannedFilenames(files) == {files[j].filename : j \in 1..Len(files)}

\* next((f for f in plan['files'] if f['filename'] == filename), None)
HasFileInfo(files, filename) == \E j \in 1..Len(files) : files[j].filename = filename

FindFileInfo(files, filename) ==
    files[Min({j \in 1..Len(files) : files[j].filename = filename})]

(***************************************************************************)
(* The symbol indexer (ProjectIndexerService): symbol name -> module path. *)
(***************************************************************************)
SymbolNames == {"U", "V"}

\* The top-level symbols of the code are its identifiers among SymbolNames.
get_symbols_from_content(code, module_path) ==
    [sym \in {code[j] : j \in 1..Len(code)} \cap SymbolNames |-> module_path]

\* build_index(active_project_path): what the indexer finds in the project tree.
build_index == [sym \in {"V"} |-> <<"legacy">>]

(***************************************************************************)
(* ContextManager                                                          *)
(***************************************************************************)
Lower(word) ==
    CASE word = "Extends" -> "extends"
      [] word = "CharacterBody2D" -> "characterbody2d"
      [] word = "Root" -> "root"
      [] word = "Node2D" -> "node2d"
      [] OTHER -> word

dependency_patterns ==
    [async |-> {"asyncio"}, path |-> {"pathlib"}, json |-> {"json"}, typing |-> {"typing"},
     service |-> {"ava.core.event_bus"}, manager |-> {"pathlib", "typing"},
     ui |-> {"tkinter", "PySide6"}, web |-> {"flask", "fastapi"},
     database |-> {"sqlite3", "sqlalchemy"}, api |-> {"requests", "aiohttp"}]

\* keyword in purpose or keyword in filename, on the lower-cased words.
_extract_file_dependencies(file_info) ==
    LET words == {Lower(file_info.purpose[j]) : j \in 1..Len(file_info.purpose)}
                 \cup {Lower(file_info.filename[j]) : j \in 1..Len(file_info.filename)}
    IN UNION {dependency_patterns[keyword] : keyword \in DOMAIN dependency_patterns \cap words}

\* A variant that opens entries for the .py artifacts only.
SessionOf_python_only(files) ==
    [filename \in {f \in PlannedFilenames(files) : EndsWith(f, ".py")} |->
        [purpose |-> FindFileInfo(files, filename).purpose,
         status |-> "planned",
         dependencies |-> _extract_file_dependencies(FindFileInfo(files, filename)),
         has_generated_code |-> FALSE,
         generated_code |-> <<>>]]

RECURSIVE SessionOf(_)
\* generation_session = {}; for file_info in plan.get("files", []): ...
SessionOf(files) ==
    IF files = <<>> THEN EmptyMap
    ELSE LET file_info == files[Len(files)]
         IN Put(SessionOf(SubSeq(files, 1, Len(files) - 1)),
                file_info.filename,
                [purpose |-> file_info.purpose,
                 status |-> "planned",
                 dependencies |-> _extract_file_dependencies(file_info),
                 has_generated_code |-> FALSE,
                 generated_code |-> <<>>])

RECURSIVE IndexOfExisting(_, _)
\* for rel_path, content in existing_files.items(): if rel_path.endswith(".py"): ...
IndexOfExisting(files, paths) ==
    IF paths = {} THEN EmptyMap
    ELSE LET rel_path == CHOOSE x \in paths : TRUE
             before == IndexOfExisting(files, paths \ {rel_path})
         IN IF EndsWith(rel_path, ".py")
            THEN Update(before, get_symbols_from_content(files[rel_path], ModulePath(rel_path)))
            ELSE before

initial_project_index(files, active) ==
    IF active /\ DOMAIN files # {} THEN IndexOfExisting(files, DOMAIN files)
    ELSE IF active THEN build_index
    ELSE EmptyMap

RagContext == "retrieved text"

\* The purpose words that are no keywords: shorter than four letters or not
\* purely alphabetic.
NotKeywordWords == {"is", "CharacterBody2D", "Node2D"}

\* _extract_keywords_from_plan: the lower-cased purpose words, and the filename
\* without .py when what remains is one alphabetic word.
_extract_keywords_from_plan(files) ==
    UNION {{Lower(files[j].purpose[w]) :
                w \in {x \in 1..Len(files[j].purpose) :
                          files[j].purpose[x] \notin NotKeywordWords}}
           \cup (IF Len(files[j].filename) = 2 /\ files[j].filename[2] = ".py"
                 THEN {Lower(files[j].filename[1])}
                 ELSE {})
           : j \in 1..Len(files)}

\* _calculate_text_relevance of a one-word text, in ten-thousandths: the
\* fraction of the keywords found in it, weighted by min(1, 1/100).
_calculate_text_relevance(text, keywords) ==
    IF keywords = {} THEN 0
    ELSE (Cardinality({k \in keywords : \E j \in 1..Len(text) : text[j] = k}) * 100)
             \div Cardinality(keywords)

\* _calculate_relevance_scores: one score per index entry, from its module
\* path, and one for the single chunk of the retrieved text, which holds no
\* keyword of the plans.
_calculate_relevance_scores(files, project_index, rag_context) ==
    [key \in {<<"project_index", sym>> : sym \in DOMAIN project_index}
              \cup (IF rag_context # "" THEN {<<"rag_chunk", "0">>} ELSE {})
        |-> IF key[1] = "project_index"
            THEN _calculate_text_relevance(project_index[key[2]],
                                           _extract_keywords_from_plan(files))
            ELSE 0]

\* build_generation_context, with the generation_session it created at session_ref.
build_generation_context(files, rag_context, existing, active, session_ref) ==
    [plan |-> files,
     project_index |-> initial_project_index(existing, active),
     living_design_context |-> EmptyMap,
     dependency_order |-> <<>>,
     generation_session |-> session_ref,
     rag_context |-> rag_context,
     relevance_scores |->
         _calculate_relevance_scores(files, initial_project_index(existing, active),
                                     rag_context),
     existing_files |-> existing]

\* A variant that marks the entry and does not store the code.
MarkCompleted_status_only(session, filename, code) ==
    IF filename \in DOMAIN session
    THEN [session EXCEPT ![filename] = [@ EXCEPT !.status = "completed"]]
    ELSE session

\* context.generation_session[filename]["status"] = "completed"; ["generated_code"] = code
MarkCompleted(session, filename, code) ==
    IF filename \in DOMAIN session
    THEN [session EXCEPT ![filename] =
             [@ EXCEPT !.status = "completed", !.has_generated_code = TRUE, !.generated_code = code]]
    ELSE session

\* A variant that starts from an empty index instead of a copy.
updated_index_fresh(project_index, filename, code) ==
    IF EndsWith(filename, ".py")
    THEN get_symbols_from_content(code, ModulePath(filename))
    ELSE EmptyMap

\* updated_index = context.project_index.copy(); updated_index.update(new_symbols)
updated_index(project_index, filename, code) ==
    IF EndsWith(filename, ".py")
    THEN Update(project_index, get_symbols_from_content(code, ModulePath(filename)))
    ELSE project_index

\* A variant that hands the new context a copy of the session, a new object.
update_session_context_copies_session(ctx, filename, code) ==
    [plan |-> ctx.plan,
     project_index |-> updated_index(ctx.project_index, filename, code),
     living_design_context |-> ctx.living_design_context,
     dependency_order |-> ctx.dependency_order,
     generation_session |-> ctx.generation_session + 1,
     rag_context |-> ctx.rag_context,
     relevance_scores |-> ctx.relevance_scores,
     existing_files |-> ctx.existing_files]

\* A variant in which updated_index is the mapping of the context given, not a
\* copy of it: the merge reaches that mapping.
given_project_index_updated_in_place(project_index, filename, code) ==
    updated_index(project_index, filename, code)

\* context.project_index of the context given, as it is after the call:
\* updated_index is a copy, so the merge into it does not reach this mapping.
given_project_index(project_index, filename, code) == project_index

\* The GenerationContext update_session_context returns when nothing raised.
update_session_context(ctx, filename, code) ==
    [plan |-> ctx.plan,
     project_index |-> updated_index(ctx.project_index, filename, code),
     living_design_context |-> ctx.living_design_context,
     dependency_order |-> ctx.dependency_order,
     generation_session |-> ctx.generation_session,
     rag_context |-> ctx.rag_context,
     relevance_scores |-> ctx.relevance_scores,
     existing_files |-> ctx.existing_files]

(***************************************************************************)
(* GenerationCoordinator: content strategies                               *)
(***************************************************************************)
IsIdentifier(word) == word \notin {"", Space, Newline}

\* re.search(r'(?:Root node is|Extends)\s+([A-Za-z0-9_]+)', purpose, re.IGNORECASE)
NodeTypeMatches(purpose) ==
    {j \in 1..Len(purpose) :
        \/ /\ Lower(purpose[j]) = "extends"
           /\ j + 1 <= Len(purpose)
           /\ IsIdentifier(purpose[j + 1])
        \/ /\ j + 3 <= Len(purpose)
           /\ Lower(purpose[j]) = "root"
           /\ Lower(purpose[j + 1]) = "node"
           /\ Lower(purpose[j + 2]) = "is"
           /\ IsIdentifier(purpose[j + 3])}

\* A variant that ignores the purpose.
_extract_node_type_from_purpose_default(purpose) == "Node"

_extract_node_type_from_purpose(purpose) ==
    IF NodeTypeMatches(purpose) = {} THEN "Node"
    ELSE LET j == Min(NodeTypeMatches(purpose))
         IN IF Lower(purpose[j]) = "extends" THEN purpose[j + 1] ELSE purpose[j + 3]

\* str.capitalize() of the stems the model uses.
Capitalize(word) ==
    CASE word = "player" -> "Player"
      [] word = "models" -> "Models"
      [] word = "service" -> "Service"
      [] word = "level" -> "Level"
      [] word = "menu" -> "Menu"
      [] OTHER -> word

\* The scene text: header, the ext_resource line naming the script, the node
\* line, and the newline the template ends with.
create_tscn_content(node_type, script_path) ==
    <<"[gd_scene load_steps=2 format=3]", Newline, Newline, "[ext_resource path=res://">>
    \o script_path
    \o <<"]", Newline, Newline, "[node name=", Capitalize(Stem(script_path)), " type=",
         node_type, "]", Newline, "script = ExtResource", Newline>>

\* json.dumps of a mapping: its entries.
JsonOfMap(m) == {<<k, m[k]>> : k \in DOMAIN m}

\* json.dumps(context.plan, indent=2)
JsonOfPlan(files) == {<<files[j].filename, files[j].purpose>> : j \in 1..Len(files)}

\* The placeholders a custom template may use (the keyword arguments of format).
FormatFields == {"filename", "filename_stem", "purpose", "file_plan_json"}

\* A template is a sequence of parts, literal text or a replacement field.
Literal(text) == [kind |-> "literal", name |-> text]
Field(name) == [kind |-> "field", name |-> name]

\* str.format raises KeyError for a field it is given no argument for.
FormatRaises(template) ==
    \E j \in 1..Len(template) :
        template[j].kind = "field" /\ template[j].name \notin FormatFields

_build_custom_prompt(template, file_info, ctx) ==
    [template |-> "custom",
     parts |-> template,
     filename |-> file_info.filename,
     filename_stem |-> Stem(file_info.filename),
     purpose |-> file_info.purpose,
     file_plan_json |-> JsonOfPlan(ctx.plan)]

\* A variant whose filter keeps the files that do not end in .py.
_build_python_coder_prompt_non_python_files(file_info, ctx, other_generated_files) ==
    LET filename == file_info.filename
        is_modification == filename \in DOMAIN ctx.existing_files
        python_files_this_session ==
            [fname \in {f \in DOMAIN other_generated_files : ~EndsWith(f, ".py")}
                |-> other_generated_files[fname]]
    IN [template |-> "CODER_PROMPT",
        filename |-> filename,
        purpose |-> file_info.purpose,
        original_code_section |->
            IF is_modification THEN {ctx.existing_files[filename]} ELSE {},
        file_plan_json |-> JsonOfPlan(ctx.plan),
        symbol_index_json |-> JsonOfMap(ctx.project_index),
        generated_files_code_json |-> JsonOfMap(python_files_this_session)]

_build_python_coder_prompt(file_info, ctx, other_generated_files) ==
    LET filename == file_info.filename
        is_modification == filename \in DOMAIN ctx.existing_files
        python_files_this_session ==
            [fname \in {f \in DOMAIN other_generated_files : EndsWith(f, ".py")}
                |-> other_generated_files[fname]]
    IN [template |-> "CODER_PROMPT",
        filename |-> filename,
        purpose |-> file_info.purpose,
        original_code_section |->
            IF is_modification THEN {ctx.existing_files[filename]} ELSE {},
        file_plan_json |-> JsonOfPlan(ctx.plan),
        symbol_index_json |-> JsonOfMap(ctx.project_index),
        generated_files_code_json |-> JsonOfMap(python_files_this_session)]

_build_gdscript_coder_prompt(file_info, ctx) ==
    [template |-> "GODOT_GDSCRIPT_CODER_PROMPT",
     filename |-> file_info.filename,
     purpose |-> file_info.purpose,
     file_plan_json |-> JsonOfPlan(ctx.plan)]

_build_godot_generic_prompt(file_info, ctx) ==
    [template |-> "GODOT_GENERIC_FILE_PROMPT",
     filename |-> file_info.filename,
     purpose |-> file_info.purpose,
     file_plan_json |-> JsonOfPlan(ctx.plan)]

\* A variant that passes on only the files of the artifact's own extension.
_build_simple_file_prompt_same_language(file_info, ctx, other_generated_files) ==
    [template |-> "SIMPLE_FILE_PROMPT",
     filename |-> file_info.filename,
     purpose |-> file_info.purpose,
     file_plan_json |-> JsonOfPlan(ctx.plan),
     existing_files_json |->
         JsonOfMap([fname \in {f \in DOMAIN other_generated_files :
                                  Suffix(f) = Suffix(file_info.filename)}
                       |-> other_generated_files[fname]])]

_build_simple_file_prompt(file_info, ctx, other_generated_files) ==
    [template |-> "SIMPLE_FILE_PROMPT",
     filename |-> file_info.filename,
     purpose |-> file_info.purpose,
     file_plan_json |-> JsonOfPlan(ctx.plan),
     existing_files_json |-> JsonOfMap(other_generated_files)]

\* A variant that looks for a custom template only after the built-in .py
\* and .gd cases.
BuildPrompt_builtin_first(file_info, ctx, other_generated_files, templates) ==
    LET file_extension == Suffix(file_info.filename)
    IN IF file_extension = ".py"
          THEN _build_python_coder_prompt(file_info, ctx, other_generated_files)
       ELSE IF file_extension = ".gd"
          THEN _build_gdscript_coder_prompt(file_info, ctx)
       ELSE IF file_extension \in DOMAIN templates
          THEN _build_custom_prompt(templates[file_extension], file_info, ctx)
       ELSE IF file_extension \in {".godot", ".import", ".svg"}
          THEN _build_godot_generic_prompt(file_info, ctx)
       ELSE _build_simple_file_prompt(file_info, ctx, other_generated_files)

\* The if/elif chain of _generate_single_file after the .tscn case.
BuildPrompt(file_info, ctx, other_generated_files, templates) ==
    LET file_extension == Suffix(file_info.filename)
    IN IF file_extension \in DOMAIN templates
          THEN _build_custom_prompt(templates[file_extension], file_info, ctx)
       ELSE IF file_extension = ".py"
          THEN _build_python_coder_prompt(file_info, ctx, other_generated_files)
       ELSE IF file_extension = ".gd"
          THEN _build_gdscript_coder_prompt(file_info, ctx)
       ELSE IF file_extension \in {".godot", ".import", ".svg"}
          THEN _build_godot_generic_prompt(file_info, ctx)
       ELSE _build_simple_file_prompt(file_info, ctx, other_generated_files)

\* if not prompt: the formatted text is empty.
PromptIsEmpty(p) == p.template = "custom" /\ p.parts = <<>>

NoPrompt == [template |-> "none"]

\* other_generated_files = generated_files_this_session.copy(); del ...[filename]
OtherGeneratedFiles(generated, filename) ==
    IF filename \in DOMAIN generated THEN Remove(generated, filename) ELSE generated

\* f"# ERROR: Failed to generate content for {filename}"
FailurePlaceholder(filename) == <<"# ERROR: Failed to generate content for ">> \o filename

\* A variant that returns what was generated before the exception.
ExceptReturn_partial(generated) == generated

\* except Exception: ... return {}
ExceptReturn(generated) == EmptyMap

(***************************************************************************)
(* The inputs of a run and what its collaborators may answer               *)
(***************************************************************************)
Runs == {1, 2}

MaxOrderLen == 2

Seqs(S, n) == UNION {[1..k -> S] : k \in 0..n}

\* What plan_generation_order may return: its contract is a permutation of
\* the planned artifacts, and the loop also copes with any other order.
Orders == Seqs(Filenames, MaxOrderLen)

\* ... for a plan that lists other artifacts, the orders over those as well.
OrdersOf(files) == Seqs(Filenames \cup PlannedFilenames(files), MaxOrderLen)

\* The longest order of an invocation that is interleaved with another one.
MaxTwoRunOrderLen == 1

\* The longest order the planner returns: shorter when two invocations run.
OrderLenLimit == IF \A r \in Runs : pc[r] # "off" THEN MaxTwoRunOrderLen ELSE MaxOrderLen

\* The existing_files a run is given: none, or models.py defining V.
ExistingFilesChoices == {EmptyMap, [f \in {FModels} |-> <<"V", Newline>>]}

\* The custom_prompts a run is given: none, a template for .py with a field
\* format is given no argument for, or an empty template for .py.
CustomPromptChoices ==
    {EmptyMap,
     [ext \in {".py"} |-> <<Literal("Write "), Field("filename"), Field("language")>>],
     [ext \in {".py"} |-> <<>>]}

\* The responses stream_chat may yield, as sequences of increments: nothing,
\* bare code defining U, and fenced code defining V.
StreamChoices ==
    {<<>>,
     <<<<"U">>, <<Newline>>>>,
     <<Fence \o <<"a", Newline, "V">>, <<Newline>> \o Fence>>}

\* One entry of the observer's record of a run.
Event(ev, pos, filename) == [ev |-> ev, pos |-> pos, filename |-> filename]

\* A variant that reports the zero-based index of the position.
Progress_zero_based(filename, completed, total) ==
    [ev |-> "progress", pos |-> completed, filename |-> filename,
     completed |-> completed - 1, total |-> total]

\* self.event_bus.emit("coordinated_generation_progress", {...})
Progress(filename, completed, total) ==
    [ev |-> "progress", pos |-> completed, filename |-> filename,
     completed |-> completed, total |-> total]

CurrentFilename(r) == generation_order[r][idx[r]]

CurrentFileInfo(r) == FindFileInfo(plan[r], CurrentFilename(r))

InLoop(r) == pc[r] = "loop" /\ idx[r] <= Len(generation_order[r])

(***************************************************************************)
(* coordinate_generation, one action per step between two awaits           *)
(***************************************************************************)
\* except Exception as e: ... return {}
Abort(r) ==
    /\ pc' = [pc EXCEPT ![r] = "fatal"]
    /\ result' = [result EXCEPT ![r] = ExceptReturn(generated_files_this_session[r])]

\* A variant whose builder keeps one session record for every context it builds.
BuildContext_shared_session(r) ==
    /\ pc[r] = "idle"
    /\ heap' = IF heap = <<>> THEN <<SessionOf(plan[r])>> ELSE heap
    /\ context' = [context EXCEPT ![r] =
           build_generation_context(plan[r], RagContext, existing_files[r], project_active, 1)]
    /\ contexts' = [contexts EXCEPT ![r] = @ \cup {context'[r]}]
    /\ pc' = [pc EXCEPT ![r] = "planning"]
    /\ UNCHANGED <<plan, existing_files, custom_prompts, generation_order, idx,
                   generated_files_this_session, prompt, stream, file_content, has_content,
                   generated_content, result, project_active, events, emitted, clean_vars>>

\* context = await self.context_manager.build_generation_context(...)
BuildContext(r) ==
    /\ pc[r] = "idle"
    /\ heap' = Append(heap, SessionOf(plan[r]))
    /\ context' = [context EXCEPT ![r] =
           build_generation_context(plan[r], RagContext, existing_files[r], project_active,
                                    Len(heap) + 1)]
    /\ contexts' = [contexts EXCEPT ![r] = @ \cup {context'[r]}]
    /\ pc' = [pc EXCEPT ![r] = "planning"]
    /\ UNCHANGED <<plan, existing_files, custom_prompts, generation_order, idx,
                   generated_files_this_session, prompt, stream, file_content, has_content,
                   generated_content, result, project_active, events, emitted, clean_vars>>

\* The service manager or the indexer raises inside build_generation_context.
BuildContextRaises(r) ==
    /\ pc[r] = "idle"
    /\ Abort(r)
    /\ UNCHANGED <<plan, existing_files, custom_prompts, context, generation_order, idx,
                   generated_files_this_session, prompt, stream, file_content, has_content,
                   generated_content, heap, project_active, events, emitted, contexts,
                   clean_vars>>

\* generation_specs = await self.dependency_planner.plan_generation_order(context)
PlanOrder(r) ==
    /\ pc[r] = "planning"
    /\ \E order \in OrdersOf(plan[r]) :
           /\ Len(order) <= OrderLenLimit
           /\ generation_order' = [generation_order EXCEPT ![r] = order]
    /\ idx' = [idx EXCEPT ![r] = 1]
    /\ generated_files_this_session' = [generated_files_this_session EXCEPT ![r] = EmptyMap]
    /\ pc' = [pc EXCEPT ![r] = "loop"]
    /\ UNCHANGED <<plan, existing_files, custom_prompts, context, prompt, stream,
                   file_content, has_content, generated_content, result, heap,
                   project_active, events, emitted, contexts, clean_vars>>

PlanOrderRaises(r) ==
    /\ pc[r] = "planning"
    /\ Abort(r)
    /\ UNCHANGED <<plan, existing_files, custom_prompts, context, generation_order, idx,
                   generated_files_this_session, prompt, stream, file_content, has_content,
                   generated_content, heap, project_active, events, emitted, contexts,
                   clean_vars>>

\* A variant that treats a filename the plan lacks as a failed artifact.
SkipArtifact_as_failure(r) ==
    /\ InLoop(r)
    /\ ~HasFileInfo(plan[r], CurrentFilename(r))
    /\ events' = [events EXCEPT ![r] = Append(@, Event("skip", idx[r], CurrentFilename(r)))]
    /\ generated_files_this_session' =
           [generated_files_this_session EXCEPT ![r] =
               Put(@, CurrentFilename(r), FailurePlaceholder(CurrentFilename(r)))]
    /\ idx' = [idx EXCEPT ![r] = @ + 1]
    /\ UNCHANGED <<pc, plan, existing_files, custom_prompts, context, generation_order,
                   prompt, stream, file_content, has_content, generated_content, result,
                   heap, project_active, emitted, contexts, clean_vars>>

\* if not file_info: ... continue
SkipArtifact(r) ==
    /\ InLoop(r)
    /\ ~HasFileInfo(plan[r], CurrentFilename(r))
    /\ events' = [events EXCEPT ![r] = Append(@, Event("skip", idx[r], CurrentFilename(r)))]
    /\ idx' = [idx EXCEPT ![r] = @ + 1]
    /\ UNCHANGED <<pc, plan, existing_files, custom_prompts, context, generation_order,
                   generated_files_this_session, prompt, stream, file_content, has_content,
                   generated_content, result, heap, project_active, emitted, contexts,
                   clean_vars>>

\* The start of _generate_single_file for the artifact at idx: what every
\* strategy does first.
Dispatch(r, strategy) ==
    /\ InLoop(r)
    /\ HasFileInfo(plan[r], CurrentFilename(r))
    /\ events' = [events EXCEPT ![r] =
           Append(@, [ev |-> "strategy", pos |-> idx[r], filename |-> CurrentFilename(r),
                      strategy |-> strategy,
                      other_generated_files |->
                          OtherGeneratedFiles(generated_files_this_session[r],
                                              CurrentFilename(r))])]
    /\ emitted' = [emitted EXCEPT ![r] = <<>>]
    /\ file_content' = [file_content EXCEPT ![r] = <<>>]

\* if file_extension == '.tscn': ... return create_tscn_content(node_type, script_path)
GenerateScene(r) ==
    /\ InLoop(r)
    /\ Suffix(CurrentFilename(r)) = ".tscn"
    /\ Dispatch(r, "template")
    /\ LET file_info == CurrentFileInfo(r)
           node_type == _extract_node_type_from_purpose(file_info.purpose)
           script_path == ReplaceToken(file_info.filename, ".tscn", ".gd")
       IN generated_content' =
              [generated_content EXCEPT ![r] = create_tscn_content(node_type, script_path)]
    /\ has_content' = [has_content EXCEPT ![r] = TRUE]
    /\ prompt' = [prompt EXCEPT ![r] = NoPrompt]
    /\ pc' = [pc EXCEPT ![r] = "resolve"]
    /\ UNCHANGED <<plan, existing_files, custom_prompts, context, generation_order, idx,
                   generated_files_this_session, stream, result, heap, project_active,
                   contexts, clean_vars>>

NeedsPrompt(r) ==
    /\ InLoop(r)
    /\ HasFileInfo(plan[r], CurrentFilename(r))
    /\ Suffix(CurrentFilename(r)) # ".tscn"

HasCustomTemplate(r) == Suffix(CurrentFilename(r)) \in DOMAIN custom_prompts[r]

PromptRaises(r) ==
    /\ HasCustomTemplate(r)
    /\ FormatRaises(custom_prompts[r][Suffix(CurrentFilename(r))])

PromptFor(r) ==
    BuildPrompt(CurrentFileInfo(r), context[r],
                OtherGeneratedFiles(generated_files_this_session[r], CurrentFilename(r)),
                custom_prompts[r])

\* A variant that handles the exception of format like an undetermined
\* prompt: the artifact fails and the loop goes on.
BuildPromptRaises_as_failure(r) ==
    /\ NeedsPrompt(r)
    /\ PromptRaises(r)
    /\ Dispatch(r, "custom")
    /\ prompt' = [prompt EXCEPT ![r] = NoPrompt]
    /\ has_content' = [has_content EXCEPT ![r] = FALSE]
    /\ generated_content' = [generated_content EXCEPT ![r] = <<>>]
    /\ pc' = [pc EXCEPT ![r] = "resolve"]
    /\ UNCHANGED <<plan, existing_files, custom_prompts, context, generation_order, idx,
                   generated_files_this_session, stream, result, heap, project_active,
                   contexts, clean_vars>>

\* prompt_template.format(...) raises: the exception leaves the loop.
BuildPromptRaises(r) ==
    /\ NeedsPrompt(r)
    /\ PromptRaises(r)
    /\ Abort(r)
    /\ UNCHANGED <<plan, existing_files, custom_prompts, context, generation_order, idx,
                   generated_files_this_session, prompt, stream, file_content, has_content,
                   generated_content, heap, project_active, events, emitted, contexts,
                   clean_vars>>

\* if not prompt: ... return None
GenerateNoPrompt(r) ==
    /\ NeedsPrompt(r)
    /\ ~PromptRaises(r)
    /\ PromptIsEmpty(PromptFor(r))
    /\ Dispatch(r, PromptFor(r).template)
    /\ prompt' = [prompt EXCEPT ![r] = PromptFor(r)]
    /\ has_content' = [has_content EXCEPT ![r] = FALSE]
    /\ generated_content' = [generated_content EXCEPT ![r] = <<>>]
    /\ pc' = [pc EXCEPT ![r] = "resolve"]
    /\ UNCHANGED <<plan, existing_files, custom_prompts, context, generation_order, idx,
                   generated_files_this_session, stream, result, heap, project_active,
                   contexts, clean_vars>>

\* provider, model = self.llm_client.get_model_for_role("coder"); if not provider or
\* not model: ... return None
GenerateNoModel(r) ==
    /\ NeedsPrompt(r)
    /\ ~PromptRaises(r)
    /\ ~PromptIsEmpty(PromptFor(r))
    /\ Dispatch(r, PromptFor(r).template)
    /\ prompt' = [prompt EXCEPT ![r] = PromptFor(r)]
    /\ has_content' = [has_content EXCEPT ![r] = FALSE]
    /\ generated_content' = [generated_content EXCEPT ![r] = <<>>]
    /\ pc' = [pc EXCEPT ![r] = "resolve"]
    /\ UNCHANGED <<plan, existing_files, custom_prompts, context, generation_order, idx,
                   generated_files_this_session, stream, result, heap, project_active,
                   contexts, clean_vars>>

\* self.llm_client.stream_chat(provider, model, prompt, "coder")
StartStream(r) ==
    /\ NeedsPrompt(r)
    /\ ~PromptRaises(r)
    /\ ~PromptIsEmpty(PromptFor(r))
    /\ Dispatch(r, PromptFor(r).template)
    /\ prompt' = [prompt EXCEPT ![r] = PromptFor(r)]
    /\ \E increments \in StreamChoices : stream' = [stream EXCEPT ![r] = increments]
    /\ pc' = [pc EXCEPT ![r] = "streaming"]
    /\ UNCHANGED <<plan, existing_files, custom_prompts, context, generation_order, idx,
                   generated_files_this_session, has_content, generated_content, result,
                   heap, project_active, contexts, clean_vars>>

\* async for chunk in ...: file_content += chunk; emit("stream_code_chunk", filename, chunk)
StreamChunk(r) ==
    /\ pc[r] = "streaming"
    /\ stream[r] # <<>>
    /\ file_content' = [file_content EXCEPT ![r] = @ \o Head(stream[r])]
    /\ emitted' = [emitted EXCEPT ![r] = Append(@, Head(stream[r]))]
    /\ stream' = [stream EXCEPT ![r] = Tail(@)]
    /\ UNCHANGED <<pc, plan, existing_files, custom_prompts, context, generation_order, idx,
                   generated_files_this_session, prompt, has_content, generated_content,
                   result, heap, project_active, events, contexts, clean_vars>>

\* return file_content
StreamEnd(r) ==
    /\ pc[r] = "streaming"
    /\ stream[r] = <<>>
    /\ generated_content' = [generated_content EXCEPT ![r] = file_content[r]]
    /\ has_content' = [has_content EXCEPT ![r] = TRUE]
    /\ file_content' = [file_content EXCEPT ![r] = <<>>]
    /\ pc' = [pc EXCEPT ![r] = "resolve"]
    /\ UNCHANGED <<plan, existing_files, custom_prompts, context, generation_order, idx,
                   generated_files_this_session, prompt, stream, result, heap,
                   project_active, events, emitted, contexts, clean_vars>>

\* A variant without the try/except around the stream: the exception leaves
\* _generate_single_file.
StreamRaises_propagates(r) ==
    /\ pc[r] = "streaming"
    /\ Abort(r)
    /\ UNCHANGED <<plan, existing_files, custom_prompts, context, generation_order, idx,
                   generated_files_this_session, prompt, stream, file_content, has_content,
                   generated_content, heap, project_active, events, emitted, contexts,
                   clean_vars>>

\* A variant that returns the text accumulated before the failure.
StreamRaises_keeps_partial(r) ==
    /\ pc[r] = "streaming"
    /\ stream[r] # <<>>
    /\ generated_content' = [generated_content EXCEPT ![r] = file_content[r]]
    /\ has_content' = [has_content EXCEPT ![r] = TRUE]
    /\ stream' = [stream EXCEPT ![r] = <<>>]
    /\ file_content' = [file_content EXCEPT ![r] = <<>>]
    /\ pc' = [pc EXCEPT ![r] = "resolve"]
    /\ UNCHANGED <<plan, existing_files, custom_prompts, context, generation_order, idx,
                   generated_files_this_session, prompt, result, heap,
                   project_active, events, emitted, contexts, clean_vars>>

\* except Exception as e: ... return None
StreamRaises(r) ==
    /\ pc[r] = "streaming"
    /\ generated_content' = [generated_content EXCEPT ![r] = <<>>]
    /\ has_content' = [has_content EXCEPT ![r] = FALSE]
    /\ stream' = [stream EXCEPT ![r] = <<>>]
    /\ file_content' = [file_content EXCEPT ![r] = <<>>]
    /\ pc' = [pc EXCEPT ![r] = "resolve"]
    /\ UNCHANGED <<plan, existing_files, custom_prompts, context, generation_order, idx,
                   generated_files_this_session, prompt, result, heap,
                   project_active, events, emitted, contexts, clean_vars>>

\* The iteration is over: generated_content and the prompt are rebound by the
\* next one, and no artifact is in flight.
Returned(r) ==
    /\ prompt' = [prompt EXCEPT ![r] = NoPrompt]
    /\ has_content' = [has_content EXCEPT ![r] = FALSE]
    /\ generated_content' = [generated_content EXCEPT ![r] = <<>>]
    /\ emitted' = [emitted EXCEPT ![r] = <<>>]

\* A variant that keys the output by the stem of the filename.
StoreContent_by_stem(generated, filename, cleaned_content) ==
    Put(generated, <<Stem(filename)>>, cleaned_content)

\* generated_files_this_session[filename] = cleaned_content
StoreContent(generated, filename, cleaned_content) == Put(generated, filename, cleaned_content)

\* The symbols an update merged into the index: those of a .py artifact whose
\* extraction did not raise.
MergedSymbols(filename, code, indexer_raises) ==
    IF indexer_raises \/ ~EndsWith(filename, ".py") THEN {}
    ELSE DOMAIN get_symbols_from_content(code, ModulePath(filename))

\* A variant of the content branch that stores the content and never calls
\* update_session_context.
StoreAndUpdate_without_update(r, indexer_raises) ==
    LET filename == CurrentFilename(r)
        cleaned_content == robust_clean_llm_output(generated_content[r])
    IN /\ generated_files_this_session' =
              [generated_files_this_session EXCEPT ![r] =
                  StoreContent(@, filename, cleaned_content)]
       /\ events' = [events EXCEPT ![r] =
              @ \o <<[ev |-> "store", pos |-> idx[r], filename |-> filename,
                      content |-> cleaned_content],
                     Progress(filename, idx[r], Len(generation_order[r]))>>]
       /\ idx' = [idx EXCEPT ![r] = @ + 1]
       /\ pc' = [pc EXCEPT ![r] = "loop"]
       /\ Returned(r)
       /\ UNCHANGED <<plan, existing_files, custom_prompts, generation_order, stream,
                      file_content, result, project_active, clean_vars, heap, context,
                      contexts>>

\* A variant whose context update merges the symbols although extraction raised.
StoreAndUpdate_raise_ignored(r, indexer_raises) ==
    LET filename == CurrentFilename(r)
        cleaned_content == robust_clean_llm_output(generated_content[r])
        session_ref == context[r].generation_session
        returned == update_session_context(context[r], filename, cleaned_content)
    IN /\ generated_files_this_session' =
              [generated_files_this_session EXCEPT ![r] =
                  StoreContent(@, filename, cleaned_content)]
       /\ heap' = [heap EXCEPT ![session_ref] = MarkCompleted(@, filename, cleaned_content)]
       /\ context' = [context EXCEPT ![r] = returned]
       /\ contexts' = [contexts EXCEPT ![r] = @ \cup {returned}]
       /\ events' = [events EXCEPT ![r] =
              @ \o <<[ev |-> "store", pos |-> idx[r], filename |-> filename,
                      content |-> cleaned_content],
                     [ev |-> "update", pos |-> idx[r], filename |-> filename,
                      symbols |-> MergedSymbols(filename, cleaned_content, indexer_raises),
                      raised |-> indexer_raises,
                      given_index |->
                          given_project_index(context[r].project_index, filename,
                                              cleaned_content)],
                     Progress(filename, idx[r], Len(generation_order[r]))>>]
       /\ idx' = [idx EXCEPT ![r] = @ + 1]
       /\ pc' = [pc EXCEPT ![r] = "loop"]
       /\ Returned(r)
       /\ UNCHANGED <<plan, existing_files, custom_prompts, generation_order, stream,
                      file_content, result, project_active, clean_vars>>

\* The steps of the loop body after _generate_single_file returned content:
\* clean, store, update the context, report progress.
StoreAndUpdate(r, indexer_raises) ==
    LET filename == CurrentFilename(r)
        cleaned_content == robust_clean_llm_output(generated_content[r])
        session_ref == context[r].generation_session
        returned == IF indexer_raises
                    THEN context[r]
                    ELSE update_session_context(context[r], filename, cleaned_content)
    IN /\ generated_files_this_session' =
              [generated_files_this_session EXCEPT ![r] =
                  StoreContent(@, filename, cleaned_content)]
       /\ heap' = [heap EXCEPT ![session_ref] = MarkCompleted(@, filename, cleaned_content)]
       /\ context' = [context EXCEPT ![r] = returned]
       /\ contexts' = [contexts EXCEPT ![r] = @ \cup {returned}]
       /\ events' = [events EXCEPT ![r] =
              @ \o <<[ev |-> "store", pos |-> idx[r], filename |-> filename,
                      content |-> cleaned_content],
                     [ev |-> "update", pos |-> idx[r], filename |-> filename,
                      symbols |-> MergedSymbols(filename, cleaned_content, indexer_raises),
                      raised |-> indexer_raises,
                      given_index |->
                          given_project_index(context[r].project_index, filename,
                                              cleaned_content)],
                     Progress(filename, idx[r], Len(generation_order[r]))>>]
       /\ idx' = [idx EXCEPT ![r] = @ + 1]
       /\ pc' = [pc EXCEPT ![r] = "loop"]
       /\ Returned(r)
       /\ UNCHANGED <<plan, existing_files, custom_prompts, generation_order, stream,
                      file_content, result, project_active, clean_vars>>

\* A variant that tests the truth of generated_content: the empty string
\* takes the else branch.
ResolveContent_if_truthy(r) ==
    /\ pc[r] = "resolve"
    /\ has_content[r]
    /\ IF generated_content[r] # <<>>
       THEN StoreAndUpdate(r, FALSE)
       ELSE /\ generated_files_this_session' =
                   [generated_files_this_session EXCEPT ![r] =
                       Put(@, CurrentFilename(r), FailurePlaceholder(CurrentFilename(r)))]
            /\ events' = [events EXCEPT ![r] =
                   @ \o <<Event("failed", idx[r], CurrentFilename(r)),
                          Progress(CurrentFilename(r), idx[r], Len(generation_order[r]))>>]
            /\ idx' = [idx EXCEPT ![r] = @ + 1]
            /\ pc' = [pc EXCEPT ![r] = "loop"]
            /\ Returned(r)
            /\ UNCHANGED <<plan, existing_files, custom_prompts, context, generation_order,
                           stream, file_content, result, heap, project_active, contexts,
                           clean_vars>>

\* if generated_content is not None: ... update_session_context returns a new context
ResolveContent(r) ==
    /\ pc[r] = "resolve"
    /\ has_content[r]
    /\ StoreAndUpdate(r, FALSE)

\* ... and get_symbols_from_content raises inside update_session_context, after
\* the session entry was marked: the except clause returns the context it was given.
ResolveContentIndexerRaises(r) ==
    /\ pc[r] = "resolve"
    /\ has_content[r]
    /\ EndsWith(CurrentFilename(r), ".py")
    /\ StoreAndUpdate(r, TRUE)

\* A variant that records the failure in the session entry.
ResolveFailure_marks_failed(r) ==
    /\ pc[r] = "resolve"
    /\ ~has_content[r]
    /\ generated_files_this_session' =
           [generated_files_this_session EXCEPT ![r] =
               Put(@, CurrentFilename(r), FailurePlaceholder(CurrentFilename(r)))]
    /\ heap' = [heap EXCEPT ![context[r].generation_session] =
                    [@ EXCEPT ![CurrentFilename(r)].status = "failed"]]
    /\ events' = [events EXCEPT ![r] =
           @ \o <<Event("failed", idx[r], CurrentFilename(r)),
                  Progress(CurrentFilename(r), idx[r], Len(generation_order[r]))>>]
    /\ idx' = [idx EXCEPT ![r] = @ + 1]
    /\ pc' = [pc EXCEPT ![r] = "loop"]
    /\ Returned(r)
    /\ UNCHANGED <<plan, existing_files, custom_prompts, context, generation_order,
                   stream, file_content, result, project_active, contexts, clean_vars>>

\* A variant that attempts the failed position again.
ResolveFailure_retries(r) ==
    /\ pc[r] = "resolve"
    /\ ~has_content[r]
    /\ generated_files_this_session' =
           [generated_files_this_session EXCEPT ![r] =
               Put(@, CurrentFilename(r), FailurePlaceholder(CurrentFilename(r)))]
    /\ events' = [events EXCEPT ![r] =
           @ \o <<Event("failed", idx[r], CurrentFilename(r)),
                  Progress(CurrentFilename(r), idx[r], Len(generation_order[r]))>>]
    /\ idx' = idx
    /\ pc' = [pc EXCEPT ![r] = "loop"]
    /\ Returned(r)
    /\ UNCHANGED <<plan, existing_files, custom_prompts, context, generation_order,
                   stream, file_content, result, heap, project_active, contexts, clean_vars>>

\* else: generated_files_this_session[filename] = f"# ERROR: ..."
ResolveFailure(r) ==
    /\ pc[r] = "resolve"
    /\ ~has_content[r]
    /\ generated_files_this_session' =
           [generated_files_this_session EXCEPT ![r] =
               Put(@, CurrentFilename(r), FailurePlaceholder(CurrentFilename(r)))]
    /\ events' = [events EXCEPT ![r] =
           @ \o <<Event("failed", idx[r], CurrentFilename(r)),
                  Progress(CurrentFilename(r), idx[r], Len(generation_order[r]))>>]
    /\ idx' = [idx EXCEPT ![r] = @ + 1]
    /\ pc' = [pc EXCEPT ![r] = "loop"]
    /\ Returned(r)
    /\ UNCHANGED <<plan, existing_files, custom_prompts, context, generation_order,
                   stream, file_content, result, heap, project_active, contexts, clean_vars>>

\* return generated_files_this_session
Finish(r) ==
    /\ pc[r] = "loop"
    /\ idx[r] > Len(generation_order[r])
    /\ result' = [result EXCEPT ![r] = generated_files_this_session[r]]
    /\ pc' = [pc EXCEPT ![r] = "done"]
    /\ UNCHANGED <<plan, existing_files, custom_prompts, context, generation_order, idx,
                   generated_files_this_session, prompt, stream, file_content, has_content,
                   generated_content, heap, project_active, events, emitted, contexts,
                   clean_vars>>

NoContext ==
    [plan |-> <<>>, project_index |-> EmptyMap, living_design_context |-> EmptyMap,
     dependency_order |-> <<>>, generation_session |-> 0, rag_context |-> "",
     relevance_scores |-> EmptyMap, existing_files |-> EmptyMap]

\* The locals of a run before coordinate_generation assigns them.
RunLocalsInit ==
    /\ context = [r \in Runs |-> NoContext]
    /\ generation_order = [r \in Runs |-> <<>>]
    /\ idx = [r \in Runs |-> 1]
    /\ generated_files_this_session = [r \in Runs |-> EmptyMap]
    /\ prompt = [r \in Runs |-> NoPrompt]
    /\ stream = [r \in Runs |-> <<>>]
    /\ file_content = [r \in Runs |-> <<>>]
    /\ has_content = [r \in Runs |-> FALSE]
    /\ generated_content = [r \in Runs |-> <<>>]
    /\ result = [r \in Runs |-> EmptyMap]
    /\ heap = <<>>
    /\ events = [r \in Runs |-> <<>>]
    /\ emitted = [r \in Runs |-> <<>>]
    /\ contexts = [r \in Runs |-> {}]

CleanOff ==
    /\ clean_pc = "off"
    /\ clean_lead = <<>>
    /\ clean_fenced = FALSE
    /\ clean_tag = <<>>
    /\ clean_body = <<>>
    /\ clean_trail = <<>>
    /\ clean_out = <<>>
    /\ clean_out2 = <<>>

\* One invocation of coordinate_generation, about to start.
Init ==
    /\ pc = [r \in Runs |-> IF r = 1 THEN "idle" ELSE "off"]
    /\ \E files \in Plans : plan = [r \in Runs |-> IF r = 1 THEN files ELSE <<>>]
    /\ \E existing \in ExistingFilesChoices :
           existing_files = [r \in Runs |-> IF r = 1 THEN existing ELSE EmptyMap]
    /\ \E templates \in CustomPromptChoices :
           custom_prompts = [r \in Runs |-> IF r = 1 THEN templates ELSE EmptyMap]
    /\ project_active \in BOOLEAN
    /\ RunLocalsInit
    /\ CleanOff

Next ==
    \E r \in Runs :
        \/ BuildContext(r)
        \/ BuildContextRaises(r)
        \/ PlanOrder(r)
        \/ PlanOrderRaises(r)
        \/ SkipArtifact(r)
        \/ GenerateScene(r)
        \/ BuildPromptRaises(r)
        \/ GenerateNoPrompt(r)
        \/ GenerateNoModel(r)
        \/ StartStream(r)
        \/ StreamChunk(r)
        \/ StreamEnd(r)
        \/ StreamRaises(r)
        \/ ResolveContent(r)
        \/ ResolveContentIndexerRaises(r)
        \/ ResolveFailure(r)
        \/ Finish(r)

Spec == Init /\ [][Next]_vars

\* The steps of run r up to the return of _generate_single_file, and the
\* return of coordinate_generation.
Generates(r) ==
    \/ BuildContext(r)
    \/ BuildContextRaises(r)
    \/ PlanOrder(r)
    \/ PlanOrderRaises(r)
    \/ SkipArtifact(r)
    \/ GenerateScene(r)
    \/ BuildPromptRaises(r)
    \/ GenerateNoPrompt(r)
    \/ GenerateNoModel(r)
    \/ StartStream(r)
    \/ StreamChunk(r)
    \/ StreamEnd(r)
    \/ StreamRaises(r)
    \/ Finish(r)

\* The rest of the loop body, by what it does to the position of run r: after
\* the content or the placeholder is stored the loop goes to its next
\* iteration. Every step of Next from "resolve" is such a step.
Resolves(r) == pc[r] = "resolve" /\ pc' = [pc EXCEPT ![r] = "loop"]

\* The event loop resumes a coroutine whose await has completed, the planner
\* and the indexer return, and stream_chat yields a finite sequence: a step
\* that can be taken is eventually taken.
SpecFair ==
    /\ Init
    /\ [][Next]_vars
    /\ WF_vars(\E r \in Runs : Generates(r))
    /\ WF_pc(\E r \in Runs : Resolves(r))

(***************************************************************************)
(* An invocation whose task may be cancelled. Task.cancel() throws         *)
(* CancelledError into the coroutine at the await it is suspended in: the  *)
(* call of the planner or the async for over stream_chat (or at its start, *)
(* before the first line has run). CancelledError is a BaseException, so   *)
(* neither except Exception clause (lines 87 and 146) catches it.          *)
(***************************************************************************)
\* The observer's entry for a cancellation, with the session record as it
\* was when the task was cancelled.
Cancellation(r) ==
    [ev |-> "cancel", pos |-> idx[r], filename |-> <<>>,
     session |-> IF context[r].generation_session \in 1..Len(heap)
                 THEN heap[context[r].generation_session]
                 ELSE EmptyMap]

\* A variant in which the except Exception clauses catch the cancellation:
\* line 146 while streaming, line 87 elsewhere.
Cancel_caught_as_exception(r) ==
    /\ pc[r] \in {"idle", "planning", "streaming"}
    /\ events' = [events EXCEPT ![r] = Append(@, Cancellation(r))]
    /\ IF pc[r] = "streaming"
       THEN /\ generated_content' = [generated_content EXCEPT ![r] = <<>>]
            /\ has_content' = [has_content EXCEPT ![r] = FALSE]
            /\ stream' = [stream EXCEPT ![r] = <<>>]
            /\ file_content' = [file_content EXCEPT ![r] = <<>>]
            /\ pc' = [pc EXCEPT ![r] = "resolve"]
            /\ UNCHANGED result
       ELSE /\ Abort(r)
            /\ UNCHANGED <<generated_content, has_content, stream, file_content>>
    /\ UNCHANGED <<plan, existing_files, custom_prompts, context, generation_order, idx,
                   generated_files_this_session, prompt, heap, project_active, emitted,
                   contexts, clean_vars>>

\* CancelledError leaves _generate_single_file and coordinate_generation:
\* nothing is returned, nothing is undone.
Cancel(r) ==
    /\ pc[r] \in {"idle", "planning", "streaming"}
    /\ events' = [events EXCEPT ![r] = Append(@, Cancellation(r))]
    /\ pc' = [pc EXCEPT ![r] = "cancelled"]
    /\ UNCHANGED <<plan, existing_files, custom_prompts, context, generation_order, idx,
                   generated_files_this_session, prompt, stream, file_content, has_content,
                   generated_content, result, heap, project_active, emitted, contexts,
                   clean_vars>>

NextCancel == Next \/ \E r \in Runs : Cancel(r)

SpecCancel == Init /\ [][NextCancel]_vars

(***************************************************************************)
(* Two invocations of coordinate_generation on the same coordinator,       *)
(* interleaved at their awaits.                                            *)
(***************************************************************************)
\* The plans of the two invocations: both plan models.py.
TwoRunPlans == {<<FileInfo(FScene), FileInfo(FModels)>>, <<FileInfo(FModels)>>}

InitTwoRuns ==
    /\ pc = [r \in Runs |-> "idle"]
    /\ plan \in {p \in [Runs -> TwoRunPlans] : Len(p[1]) > Len(p[2])}
    /\ existing_files = [r \in Runs |-> EmptyMap]
    /\ \E templates \in CustomPromptChoices :
           custom_prompts = [r \in Runs |-> IF r = 1 THEN templates ELSE EmptyMap]
    /\ project_active = TRUE
    /\ RunLocalsInit
    /\ CleanOff

SpecTwoRuns == InitTwoRuns /\ [][Next]_vars

(***************************************************************************)
(* One invocation whose plan lists models.py and one artifact of any kind, *)
(* with a custom template for any one extension.                           *)
(***************************************************************************)
DispatchPlans == {<<FileInfo(FModels), FileInfo(f)>> : f \in DispatchFilenames \ {FModels}}

\* A template str.format accepts: literal text and the filename field.
ValidTemplate == <<Literal("Write "), Field("filename")>>

DispatchPromptChoices ==
    CustomPromptChoices \cup {[ext \in {e} |-> ValidTemplate] : e \in Extensions}

InitDispatch ==
    /\ pc = [r \in Runs |-> IF r = 1 THEN "idle" ELSE "off"]
    /\ \E files \in DispatchPlans : plan = [r \in Runs |-> IF r = 1 THEN files ELSE <<>>]
    /\ existing_files = [r \in Runs |-> EmptyMap]
    /\ \E templates \in DispatchPromptChoices :
           custom_prompts = [r \in Runs |-> IF r = 1 THEN templates ELSE EmptyMap]
    /\ project_active = FALSE
    /\ RunLocalsInit
    /\ CleanOff

SpecDispatch == InitDispatch /\ [][Next]_vars

(***************************************************************************)
(* Claims about a run                                                      *)
(***************************************************************************)
EventIds(r) == 1..Len(events[r])

\* The entries of kind ev the observer recorded for loop position pos.
EventsAt(r, ev, pos) ==
    {k \in EventIds(r) : events[r][k].ev = ev /\ events[r][k].pos = pos}

OrderFilenames(r) == {generation_order[r][j] : j \in 1..Len(generation_order[r])}

\* The order is a permutation of the planned filenames.
IsPermutation(r) ==
    /\ Len(generation_order[r]) = Len(plan[r])
    /\ OrderFilenames(r) = PlannedFilenames(plan[r])

\* Every artifact's strategy produced content: nothing failed, nothing was skipped.
AllProduced(r) == \A k \in EventIds(r) : events[r][k].ev \notin {"failed", "skip"}

PlaceholderText(filename) == <<"# ERROR: Failed to generate content for ">> \o filename

\* C1: a run whose order is a permutation of the N planned filenames and whose
\* strategies all produced content returns exactly N entries, keyed by the
\* planned filenames, none of them the failure placeholder.
C1_AllPlannedInResult ==
    \A r \in Runs :
        (pc[r] = "done" /\ IsPermutation(r) /\ AllProduced(r))
        => /\ DOMAIN result[r] = PlannedFilenames(plan[r])
           /\ Cardinality(DOMAIN result[r]) = Len(plan[r])
           /\ \A f \in DOMAIN result[r] : result[r][f] # PlaceholderText(f)

C1_Witness ==
    /\ pc[1] = "done"
    /\ Len(plan[1]) = 2
    /\ IsPermutation(1)
    /\ AllProduced(1)
    /\ Cardinality(DOMAIN result[1]) = 2

\* The primary-code prompt of the artifact in flight has been built.
CoderPromptBuilt(r) ==
    /\ pc[r] \in {"streaming", "resolve"}
    /\ prompt[r].template = "CODER_PROMPT"

\* The updates of earlier positions that merged symbol sym and were not
\* followed by another update merging it.
LastDefinitions(r, sym) ==
    {k \in EventIds(r) :
        /\ events[r][k].ev = "update"
        /\ events[r][k].pos < idx[r]
        /\ sym \in events[r][k].symbols
        /\ ~\E k2 \in EventIds(r) :
               k2 > k /\ events[r][k2].ev = "update" /\ sym \in events[r][k2].symbols}

C2_IndexInPrompt(r) ==
    \A sym \in SymbolNames : \A k \in LastDefinitions(r, sym) :
        <<sym, ModulePath(events[r][k].filename)>> \in prompt[r].symbol_index_json

\* The .py artifacts whose content was stored at an earlier position.
EarlierPythonStores(r) ==
    {k \in EventIds(r) :
        /\ events[r][k].ev = "store"
        /\ events[r][k].pos < idx[r]
        /\ EndsWith(events[r][k].filename, ".py")}

\* The same filename was attempted again after entry k.
AttemptedAgain(r, k) ==
    \E k2 \in EventIds(r) :
        /\ k2 > k
        /\ events[r][k2].ev = "strategy"
        /\ events[r][k2].filename = events[r][k].filename

C3_UpdateOncePerContent ==
    \A r \in Runs : \A pos \in 1..Len(generation_order[r]) :
        LET strategies == EventsAt(r, "strategy", pos)
            stores == EventsAt(r, "store", pos)
            updates == EventsAt(r, "update", pos)
            resolved == pos < idx[r]
        IN /\ Cardinality(stores) <= 1
           /\ stores # {} => strategies # {}
           /\ resolved => Cardinality(updates) = Cardinality(stores)
           /\ ~resolved => updates = {}
           /\ \A u \in updates :
                  /\ \A st \in stores : st < u
                  /\ \A k \in EventIds(r) :
                         (events[r][k].ev = "strategy" /\ events[r][k].pos > pos) => u < k
           /\ (EventsAt(r, "skip", pos) # {} \/ EventsAt(r, "failed", pos) # {}) => updates = {}
           \* what the invocation leaves behind: the session entry is completed
           /\ \A st \in stores :
                  resolved =>
                      heap[context[r].generation_session][events[r][st].filename].status
                          = "completed"

C3_Witness ==
    /\ pc[1] = "done"
    /\ EventsAt(1, "store", 1) # {}
    /\ EventsAt(1, "update", 1) # {}
    /\ EventsAt(1, "failed", 2) # {}
    /\ EventsAt(1, "update", 2) = {}

\* C4, step by step: an artifact without content gets the placeholder and the
\* loop moves on; neither an absent model nor a streaming failure aborts the run.
C4_Step ==
    \A r \in Runs :
        /\ (pc[r] = "resolve" /\ ~has_content[r] /\ pc'[r] # pc[r])
           => /\ pc'[r] = "loop"
              /\ idx'[r] = idx[r] + 1
              /\ CurrentFilename(r) \in DOMAIN generated_files_this_session'[r]
              /\ generated_files_this_session'[r][CurrentFilename(r)]
                     = PlaceholderText(CurrentFilename(r))
        /\ (pc[r] = "streaming" /\ pc'[r] # pc[r])
           => (pc'[r] = "resolve" /\ (stream[r] # <<>> => ~has_content'[r]))
        /\ (NeedsPrompt(r) /\ ~PromptRaises(r) /\ pc'[r] # pc[r])
           => pc'[r] \in {"streaming", "resolve"}

\* C4, at the end: the failed artifact has the placeholder (unless it was
\* attempted again) and every later position was attempted or skipped.
C4_Final ==
    \A r \in Runs :
        pc[r] = "done" =>
            \A k \in EventIds(r) :
                events[r][k].ev = "failed" =>
                    /\ \A q \in (events[r][k].pos + 1)..Len(generation_order[r]) :
                           EventsAt(r, "strategy", q) # {} \/ EventsAt(r, "skip", q) # {}
                    /\ ~AttemptedAgain(r, k)
                       => /\ events[r][k].filename \in DOMAIN result[r]
                          /\ result[r][events[r][k].filename]
                                 = PlaceholderText(events[r][k].filename)

\* C4: no model for the coder role, or a streaming failure, puts the failure
\* placeholder in the result for that artifact, does not abort the run, and the
\* later artifacts are still attempted.
C4_FailureIsPerArtifact == [](C4_Final) /\ [][C4_Step]_vars

\* The first artifact failed, the second one succeeded.
C4_Witness ==
    /\ pc[1] = "done"
    /\ EventsAt(1, "failed", 1) # {}
    /\ EventsAt(1, "store", 2) # {}
    /\ generation_order[1][1] # generation_order[1][2]
    /\ result[1][generation_order[1][1]] = PlaceholderText(generation_order[1][1])
    /\ result[1][generation_order[1][2]] # PlaceholderText(generation_order[1][2])

\* C5: a run that ended in the except clause returned the empty mapping,
\* whatever it had generated and stored before.
C5_FatalReturnsEmpty ==
    \A r \in Runs : pc[r] = "fatal" => DOMAIN result[r] = {}

\* The exception came after an artifact had been stored.
C5_Witness ==
    /\ pc[1] = "fatal"
    /\ DOMAIN generated_files_this_session[1] # {}
    /\ DOMAIN result[1] = {}

\* C6, at the end and along the way: the result is keyed by the filenames of
\* the order that the plan has, and a position whose filename the plan lacks
\* has a skip and nothing else.
C6_State ==
    \A r \in Runs :
        /\ pc[r] = "done"
           => /\ DOMAIN result[r] = OrderFilenames(r) \cap PlannedFilenames(plan[r])
              /\ \A pos \in 1..Len(generation_order[r]) :
                     EventsAt(r, "strategy", pos) # {} \/ EventsAt(r, "skip", pos) # {}
        /\ \A pos \in 1..Len(generation_order[r]) :
               (pos < idx[r] /\ generation_order[r][pos] \notin PlannedFilenames(plan[r]))
               => /\ Cardinality(EventsAt(r, "skip", pos)) = 1
                  /\ \A k \in EventIds(r) :
                         events[r][k].pos = pos => events[r][k].ev = "skip"
                  /\ generation_order[r][pos] \notin DOMAIN generated_files_this_session[r]

\* C6, the skip itself: nothing is stored, no context is produced, the session
\* is not touched and the loop goes on.
C6_SkipStep ==
    \A r \in Runs :
        (/\ InLoop(r)
         /\ ~HasFileInfo(plan[r], CurrentFilename(r))
         /\ idx'[r] # idx[r])
        => /\ pc'[r] = "loop"
           /\ idx'[r] = idx[r] + 1
           /\ UNCHANGED <<generated_files_this_session, context, contexts, heap>>

\* C6: the result of a non-fatal run is keyed by exactly the filenames that are
\* in the order and in the plan; a filename the plan lacks is skipped without
\* result entry, strategy, context update or abort.
C6_ResultKeysAndSkips == [](C6_State) /\ [][C6_SkipStep]_vars

\* A run ended after skipping its first position and storing its second.
C6_Witness ==
    /\ pc[1] = "done"
    /\ EventsAt(1, "skip", 1) # {}
    /\ EventsAt(1, "store", 2) # {}
    /\ DOMAIN result[1] = {generation_order[1][2]}

\* The symbols the update in progress extracts from the cleaned content.
ExtractedNow(r) ==
    DOMAIN get_symbols_from_content(robust_clean_llm_output(generated_content[r]),
                                    ModulePath(CurrentFilename(r)))

C7_Step ==
    \A r \in Runs :
        LET old == context[r].project_index
            new == context'[r].project_index
        IN \A sym \in DOMAIN old :
               /\ sym \in DOMAIN new
               /\ new[sym] # old[sym]
                  => /\ pc[r] = "resolve"
                     /\ has_content[r]
                     /\ sym \in ExtractedNow(r)

\* C7: a context update keeps every symbol of the index, and keeps its module
\* path unless the new artifact defines that symbol; the key set never shrinks.
C7_IndexMonotone == [][C7_Step]_vars

\* An update added U for pkg/service.py and left V, known from the start, alone.
C7_Witness ==
    /\ EventsAt(1, "update", 1) # {}
    /\ "V" \in DOMAIN initial_project_index(existing_files[1], project_active)
    /\ DOMAIN context[1].project_index = {"U", "V"}
    /\ context[1].project_index["V"]
           = initial_project_index(existing_files[1], project_active)["V"]
    /\ context[1].project_index["U"] = <<"pkg", ".", "service">>

\* C8: every context value of a run refers to one generation_session object,
\* the one the builder allocated for that run; no other is ever allocated.
C8_OneSessionPerRun ==
    /\ \A r \in Runs :
           /\ \A c \in contexts[r] : c.generation_session \in 1..Len(heap)
           /\ \A c1, c2 \in contexts[r] : c1.generation_session = c2.generation_session
           /\ pc[r] \notin {"off", "idle"} /\ contexts[r] # {} => context[r] \in contexts[r]
    /\ Len(heap) = Cardinality({r \in Runs : contexts[r] # {}})

\* The builder's context and two updated ones, all on the same session.
C8_Witness ==
    /\ Cardinality(contexts[1]) = 3
    /\ \A c \in contexts[1] : c.generation_session = 1

\* The context of run r has been built.
Built(r) == contexts[r] # {}

\* The session record the context of run r refers to.
SessionRecord(r) == heap[context[r].generation_session]

C11_Distinct ==
    \A r, o \in Runs :
        (r # o /\ Built(r) /\ Built(o))
        => context[r].generation_session # context[o].generation_session

C11_Step ==
    \A r, o \in Runs :
        (/\ r # o
         /\ Built(r)
         /\ Built(o)
         /\ heap'[context[r].generation_session] # heap[context[r].generation_session])
        => /\ heap'[context[o].generation_session] = heap[context[o].generation_session]
           /\ context'[o].project_index = context[o].project_index

\* C11: two contexts built from two different plans have distinct session
\* records, and a step that mutates the session record of one of them leaves
\* the session record and the project index of the other unchanged.
C11_SessionsIsolated == [](C11_Distinct) /\ [][C11_Step]_vars

\* Both contexts are built from different plans that both list models.py; the
\* first run's update marked it completed, the second run's entry is as built.
C11_Witness ==
    /\ Built(1)
    /\ Built(2)
    /\ plan[1] # plan[2]
    /\ SessionRecord(1)[FModels].status = "completed"
    /\ SessionRecord(2)[FModels].status = "planned"
    /\ "U" \in DOMAIN context[1].project_index
    /\ "U" \notin DOMAIN context[2].project_index

\* sub occurs in s as a run of consecutive elements.
Contains(s, sub) ==
    \E p \in 0..(Len(s) - Len(sub)) : SubSeq(s, p + 1, p + Len(sub)) = sub

\* The node type the purpose texts of the scenes name.
NodeTypeNamed(filename) ==
    CASE filename = FScene -> "CharacterBody2D"
      [] filename = FLevel -> "Node2D"
      [] OTHER -> "Node"

\* The companion script of a scene: same path, .gd for .tscn.
CompanionScript(filename) == SubSeq(filename, 1, Len(filename) - 1) \o <<".gd">>

\* A planned .tscn artifact is at the head of the loop of run r.
SceneIsNext(r) ==
    /\ InLoop(r)
    /\ HasFileInfo(plan[r], CurrentFilename(r))
    /\ Suffix(CurrentFilename(r)) = ".tscn"

C12_Step ==
    \A r \in Runs :
        (SceneIsNext(r) /\ <<pc[r], idx[r]>> # <<pc'[r], idx'[r]>>)
        => /\ pc'[r] = "resolve"
           /\ has_content'[r]
           /\ prompt'[r] = NoPrompt
           /\ stream'[r] = stream[r]
           /\ emitted'[r] = <<>>
           /\ Contains(generated_content'[r],
                       <<"[ext_resource path=res://">> \o CompanionScript(CurrentFilename(r))
                           \o <<"]">>)
           /\ Contains(generated_content'[r],
                       <<" type=", NodeTypeNamed(CurrentFilename(r)), "]">>)

C12_NeverFails ==
    \A r \in Runs : \A k \in EventIds(r) :
        Suffix(events[r][k].filename) = ".tscn"
        => /\ events[r][k].ev # "failed"
           /\ events[r][k].ev = "strategy" => events[r][k].strategy = "template"

\* C12: a planned .tscn artifact gets its content from the template in one
\* step, with no prompt, no model and no stream; the content names the
\* companion .gd script and the node type the purpose gives (Node when it
\* gives none); such an artifact never fails.
C12_SceneFromTemplate == [](C12_NeverFails) /\ [][C12_Step]_vars

\* level.tscn, whose purpose reads "Root node is Node2D", has been templated.
C12_Witness ==
    /\ pc[1] = "resolve"
    /\ CurrentFilename(1) = FLevel
    /\ has_content[1]
    /\ Contains(generated_content[1], <<"[ext_resource path=res://", "level", ".gd", "]">>)
    /\ Contains(generated_content[1], <<" type=", "Node2D", "]">>)

\* The step is an update_session_context of run r in which extraction raised.
ExtractionRaisedNow(r) ==
    /\ Len(events'[r]) = Len(events[r]) + 3
    /\ events'[r][Len(events[r]) + 2].ev = "update"
    /\ events'[r][Len(events[r]) + 2].raised

\* The context the call returns is the one it was given, with the same index
\* and fields, and the run goes on.
C13_ContextReturned(r) ==
    /\ context'[r] = context[r]
    /\ pc'[r] = "loop"
    /\ result'[r] = result[r]
    /\ idx'[r] = idx[r] + 1

\* C13: when extraction fails inside update_session_context the call raises
\* nothing and returns the context it was given, index and fields unchanged, so
\* the run is not aborted; the session record that context refers to keeps the
\* mark the call made before extracting: the entry of the file is completed
\* with its code, the other entries are untouched.
C13_ExtractionFailureKeepsContext ==
    [][\A r \in Runs :
          ExtractionRaisedNow(r)
          => /\ C13_ContextReturned(r)
             /\ LET filename == CurrentFilename(r)
                    before == SessionRecord(r)
                    after == SessionRecord(r)'
                IN /\ DOMAIN after = DOMAIN before
                   /\ \A f \in DOMAIN before \ {filename} : after[f] = before[f]
                   /\ after[filename].status = "completed"
                   /\ after[filename].has_generated_code
                   /\ after[filename].generated_code
                          = robust_clean_llm_output(generated_content[r])]_vars

\* Extraction raised for models.py at position 1 while the index was empty;
\* the run went on to position 2 with the index still empty.
C13_Witness ==
    /\ pc[1] = "loop"
    /\ idx[1] = 2
    /\ \E k \in EventIds(1) : events[1][k].ev = "update" /\ events[1][k].raised
    /\ FModels \in DOMAIN generated_files_this_session[1]
    /\ generated_files_this_session[1][FModels] = <<"U">>
    /\ DOMAIN context[1].project_index = {}
    /\ FModels \in DOMAIN SessionRecord(1)
    /\ SessionRecord(1)[FModels].status = "completed"

\* The entries of the record that say position pos has resolved: its context
\* update (which follows the store), its placeholder, or its skip.
ResolvedAt(r, pos) ==
    EventsAt(r, "update", pos) \cup EventsAt(r, "failed", pos) \cup EventsAt(r, "skip", pos)

\* The strategy invocations of run r whose position has not resolved.
InFlight(r) ==
    {k \in EventIds(r) :
        /\ events[r][k].ev = "strategy"
        /\ ~\E k2 \in ResolvedAt(r, events[r][k].pos) : k2 > k}

\* C14: within one invocation the strategies are invoked in the planner's
\* order, each position at most once; the strategy of a position is invoked
\* only after every earlier position has resolved, and at most one artifact
\* is in flight at any time.
C14_StrictlySequential ==
    \A r \in Runs :
        /\ \A pos \in 1..Len(generation_order[r]) :
               Cardinality(EventsAt(r, "strategy", pos)) <= 1
        /\ \A k \in EventIds(r) :
               events[r][k].ev = "strategy" =>
                   /\ events[r][k].pos \in 1..Len(generation_order[r])
                   /\ events[r][k].filename = generation_order[r][events[r][k].pos]
                   /\ \A k2 \in EventIds(r) :
                          (k2 < k /\ events[r][k2].ev = "strategy")
                          => events[r][k2].pos < events[r][k].pos
                   /\ \A q \in 1..(events[r][k].pos - 1) :
                          \E k2 \in ResolvedAt(r, q) : k2 < k
        /\ Cardinality(InFlight(r)) <= 1
        /\ InFlight(r) # {} <=> pc[r] \in {"streaming", "resolve"}

\* The second position is streaming after the first one stored its content
\* and updated the context.
C14_Witness ==
    /\ pc[1] = "streaming"
    /\ idx[1] = 2
    /\ EventsAt(1, "update", 1) # {}
    /\ Cardinality(InFlight(1)) = 1
    /\ emitted[1] # <<>>

\* The progress notifications in the record of run r.
ProgressEvents(r) == {k \in EventIds(r) : events[r][k].ev = "progress"}

\* The positions up to pos for which content was produced and stored.
CompletedUpTo(r, pos) == {q \in 1..pos : EventsAt(r, "store", q) # {}}

\* What C16 and its amendment share: total is the length of the order, and
\* the completed values increase strictly and never exceed total.
C16_TotalAndOrder(r) ==
    \A k \in ProgressEvents(r) :
        /\ events[r][k].total = Len(generation_order[r])
        /\ events[r][k].completed <= events[r][k].total
        /\ \A k2 \in ProgressEvents(r) :
               k2 < k => events[r][k2].completed < events[r][k].completed

\* C16 as stated: a progress notification follows the production of content and
\* carries the number of artifacts completed so far and the length of the order;
\* the completed values increase strictly and never exceed total.
C16_Original ==
    \A r \in Runs :
        /\ C16_TotalAndOrder(r)
        /\ \A pos \in 1..(idx[r] - 1) :
               EventsAt(r, "store", pos) # {} => EventsAt(r, "progress", pos) # {}
        /\ \A k \in ProgressEvents(r) :
               events[r][k].completed = Cardinality(CompletedUpTo(r, events[r][k].pos))

\* C16 as amended: a progress notification follows every attempted artifact,
\* whether it produced content or got the placeholder, and none follows a
\* skipped one; it carries the position of the artifact in the order, which
\* counts failed and skipped positions too, and the length of the order; the
\* completed values increase strictly and never exceed total.
C16_ProgressCarriesPosition ==
    \A r \in Runs :
        /\ C16_TotalAndOrder(r)
        /\ \A pos \in 1..(idx[r] - 1) :
               Cardinality(EventsAt(r, "progress", pos)) =
                   Cardinality(EventsAt(r, "store", pos) \cup EventsAt(r, "failed", pos))
        /\ \A pos \in 1..(idx[r] - 1) :
               EventsAt(r, "skip", pos) # {} => EventsAt(r, "progress", pos) = {}
        /\ \A k \in ProgressEvents(r) :
               /\ events[r][k].completed = events[r][k].pos
               /\ events[r][k].filename = generation_order[r][events[r][k].pos]
               /\ k > 1
               /\ events[r][k - 1].ev \in {"update", "failed"}
               /\ events[r][k - 1].pos = events[r][k].pos

\* The first artifact failed and the second produced content: the second
\* notification says 2 of 2 although one artifact was completed.
C16_Witness ==
    /\ pc[1] = "done"
    /\ Len(generation_order[1]) = 2
    /\ EventsAt(1, "failed", 1) # {}
    /\ EventsAt(1, "store", 2) # {}
    /\ \E k \in ProgressEvents(1) : events[1][k].completed = 2 /\ events[1][k].total = 2

\* The last entry before k that resolved an attempt of filename: its store
\* or its failure.
LastOutcome(r, filename, k) ==
    LET outcomes == {k2 \in 1..(k - 1) :
                        /\ events[r][k2].ev \in {"store", "failed"}
                        /\ events[r][k2].filename = filename}
    IN IF outcomes = {} THEN 0 ELSE Max(outcomes)

\* The filenames whose latest attempt before entry k produced content.
CompletedBefore(r, k) ==
    {f \in OrderFilenames(r) :
        /\ LastOutcome(r, f, k) # 0
        /\ events[r][LastOutcome(r, f, k)].ev = "store"}

\* C15: the other-generated-files view a strategy is given holds exactly the
\* artifacts completed earlier in the run, with their content, without the
\* current filename; an earlier artifact that failed has no entry in it.
C15_ViewIsCompletedArtifacts ==
    \A r \in Runs : \A k \in EventIds(r) :
        events[r][k].ev = "strategy" =>
            LET view == events[r][k].other_generated_files
            IN /\ DOMAIN view = CompletedBefore(r, k) \ {events[r][k].filename}
               /\ \A f \in DOMAIN view :
                      view[f] = events[r][LastOutcome(r, f, k)].content

\* The strategies the precedence of the extension dispatch allows for an
\* artifact with this filename under these custom templates.
StrategiesFor(filename, templates) ==
    LET file_extension == Suffix(filename)
    IN IF file_extension = ".tscn" THEN {"template"}
       ELSE IF file_extension \in DOMAIN templates THEN {"custom"}
       ELSE IF file_extension = ".py" THEN {"CODER_PROMPT"}
       ELSE IF file_extension = ".gd" THEN {"GODOT_GDSCRIPT_CODER_PROMPT"}
       ELSE {"GODOT_GENERIC_FILE_PROMPT", "SIMPLE_FILE_PROMPT"}

\* C17: every attempted artifact has exactly one strategy invoked, chosen by
\* its extension: the scene template for .tscn even when a custom template is
\* registered for .tscn, else the custom template registered for the extension,
\* else the primary-code strategy for .py, else the scripting strategy for .gd,
\* else a generic model-backed strategy.
C17_StrategyByExtension ==
    \A r \in Runs :
        /\ \A k \in EventIds(r) :
               events[r][k].ev = "strategy" =>
                   events[r][k].strategy
                       \in StrategiesFor(events[r][k].filename, custom_prompts[r])
        /\ \A pos \in 1..Len(generation_order[r]) :
               /\ Cardinality(EventsAt(r, "strategy", pos)) <= 1
               /\ (EventsAt(r, "store", pos) \cup EventsAt(r, "failed", pos)) # {}
                  => Cardinality(EventsAt(r, "strategy", pos)) = 1
               /\ EventsAt(r, "skip", pos) # {} => EventsAt(r, "strategy", pos) = {}

\* A custom template registered for .gd was used for player.gd in place of
\* the scripting strategy.
C17_Witness ==
    /\ ".gd" \in DOMAIN custom_prompts[1]
    /\ pc[1] = "streaming"
    /\ CurrentFilename(1) = FScript
    /\ prompt[1].template = "custom"
    /\ \E k \in EventIds(1) :
           /\ events[1][k].ev = "strategy"
           /\ events[1][k].filename = FScript
           /\ events[1][k].strategy = "custom"

\* A prompt was built for the artifact in flight of run r, whose extension is
\* not .tscn, not a key of the custom templates, not .py and not .gd.
OtherKindInFlight(r) ==
    /\ pc[r] \in {"streaming", "resolve"}
    /\ prompt[r].template # "none"
    /\ Suffix(CurrentFilename(r)) \notin {".tscn", ".py", ".gd"} \cup DOMAIN custom_prompts[r]

\* The prompt of run r is the fallback prompt and holds the content of every
\* other artifact stored earlier in the run.
FallbackWithAllOthers(r) ==
    /\ prompt[r].template = "SIMPLE_FILE_PROMPT"
    /\ \A k \in EventIds(r) :
           (/\ events[r][k].ev = "store"
            /\ events[r][k].pos < idx[r]
            /\ events[r][k].filename # CurrentFilename(r)
            /\ ~AttemptedAgain(r, k))
           => <<events[r][k].filename, events[r][k].content>>
                  \in prompt[r].existing_files_json

\* C18 as stated: every artifact whose extension is not .tscn, not a key of the
\* custom templates, not .py and not .gd gets the fallback prompt, which holds
\* all other artifacts generated so far, whatever their language.
C18_Original ==
    \A r \in Runs : OtherKindInFlight(r) => FallbackWithAllOthers(r)

\* C18 as amended: the same for every such extension except .godot, .import
\* and .svg; an artifact with one of these gets the Godot generic prompt,
\* built from its filename, its purpose and the plan only.
C18_FallbackIncludesAllOthers ==
    \A r \in Runs :
        OtherKindInFlight(r) =>
            IF Suffix(CurrentFilename(r)) \in {".godot", ".import", ".svg"}
            THEN /\ prompt[r].template = "GODOT_GENERIC_FILE_PROMPT"
                 /\ DOMAIN prompt[r] = {"template", "filename", "purpose", "file_plan_json"}
                 /\ prompt[r].filename = CurrentFilename(r)
            ELSE FallbackWithAllOthers(r)

\* notes.txt is streaming with the fallback prompt, which holds models.py.
C18_Witness ==
    /\ pc[1] = "streaming"
    /\ CurrentFilename(1) = FNotes
    /\ prompt[1].template = "SIMPLE_FILE_PROMPT"
    /\ <<FModels, <<"U">>>> \in prompt[1].existing_files_json

RECURSIVE Concat(_)
\* The concatenation of a sequence of texts.
Concat(increments) ==
    IF increments = <<>> THEN <<>>
    ELSE Concat(SubSeq(increments, 1, Len(increments) - 1)) \o increments[Len(increments)]

\* While streaming, the accumulated text is the concatenation of the increments
\* published so far; when the stream has ended well, so is the text returned.
C19_State ==
    \A r \in Runs :
        /\ pc[r] = "streaming" => file_content[r] = Concat(emitted[r])
        /\ (pc[r] = "resolve" /\ has_content[r] /\ prompt[r].template # "none")
           => generated_content[r] = Concat(emitted[r])
        /\ \A pos \in 1..Len(generation_order[r]) :
               Cardinality(EventsAt(r, "strategy", pos)) <= 1

C19_Step ==
    \A r \in Runs :
        \* stream_chat is called when the strategy is invoked, never again
        /\ (pc[r] # "streaming" /\ pc'[r] = "streaming")
           => (pc[r] = "loop" /\ emitted'[r] = <<>> /\ file_content'[r] = <<>>)
        \* an increment arrives: it is published, in arrival order
        /\ (pc[r] = "streaming" /\ pc'[r] = "streaming" /\ stream'[r] # stream[r])
           => /\ stream[r] # <<>>
              /\ stream'[r] = Tail(stream[r])
              /\ emitted'[r] = Append(emitted[r], Head(stream[r]))
        \* the stream ends well: the text returned is what was accumulated
        /\ (pc[r] = "streaming" /\ pc'[r] = "resolve" /\ has_content'[r])
           => /\ stream[r] = <<>>
              /\ emitted'[r] = emitted[r]
              /\ generated_content'[r] = file_content[r]
        \* the stream fails: the increments stay published, the text is dropped
        /\ (pc[r] = "streaming" /\ pc'[r] # "streaming" /\ ~has_content'[r])
           => /\ pc'[r] = "resolve"
              /\ emitted'[r] = emitted[r]
              /\ generated_content'[r] = <<>>
              /\ file_content'[r] = <<>>
              /\ idx'[r] = idx[r]
        \* a failed artifact is not streamed again: the loop moves on
        /\ (pc[r] = "resolve" /\ pc'[r] # "resolve")
           => (pc'[r] = "loop" /\ idx'[r] = idx[r] + 1)

\* C19: stream_chat is invoked at most once per artifact; every increment is
\* published in arrival order; after a stream that ended well the text handed
\* to cleaning is the concatenation of the published increments; after a stream
\* that failed the published increments stay, the accumulated text is dropped
\* and the artifact is a failure.
C19_StreamOnceAndPublished == [](C19_State) /\ [][C19_Step]_vars

\* The stream failed after one of its two increments: the increment stays
\* published and there is no content.
C19_Witness ==
    /\ pc[1] = "resolve"
    /\ ~has_content[1]
    /\ emitted[1] = <<<<"U">>>>
    /\ generated_content[1] = <<>>

\* The step is a call of update_session_context by run r.
UpdatedNow(r) ==
    /\ Len(events'[r]) = Len(events[r]) + 3
    /\ events'[r][Len(events[r]) + 2].ev = "update"

\* C20: update_session_context leaves the project_index mapping of the context
\* it is given as it was, and the context it returns has the same plan,
\* living_design_context, dependency_order, retrieval text, relevance_scores
\* and existing_files; for a filename that does not end in .py the returned
\* index has the contents of the given one.
C20_UpdateFrame ==
    [][\A r \in Runs :
          UpdatedNow(r)
          => LET given == context[r]
                 returned == context'[r]
                 update == events'[r][Len(events[r]) + 2]
             IN /\ update.given_index = given.project_index
                /\ returned.plan = given.plan
                /\ returned.living_design_context = given.living_design_context
                /\ returned.dependency_order = given.dependency_order
                /\ returned.rag_context = given.rag_context
                /\ returned.relevance_scores = given.relevance_scores
                /\ returned.existing_files = given.existing_files
                /\ ~EndsWith(update.filename, ".py")
                   => returned.project_index = given.project_index]_vars

\* An update merged U into the index of the returned context; the context
\* given is still in the record without U, and the scores, computed when the
\* context was built, have no entry for U.
C20_Witness ==
    /\ "U" \in DOMAIN context[1].project_index
    /\ <<"project_index", "U">> \notin DOMAIN context[1].relevance_scores
    /\ \E c \in contexts[1] : "U" \notin DOMAIN c.project_index
    /\ \E k \in EventIds(1) :
           /\ events[1][k].ev = "update"
           /\ "U" \in events[1][k].symbols
           /\ "U" \notin DOMAIN events[1][k].given_index

\* The session record the builder made for run r: one entry per planned
\* artifact, each planned, with its purpose and no generated content.
C21_FreshSession(r, session) ==
    /\ DOMAIN session = PlannedFilenames(plan[r])
    /\ Cardinality(DOMAIN session) = Len(plan[r])
    /\ \A j \in 1..Len(plan[r]) :
           LET entry == session[plan[r][j].filename]
           IN /\ entry.status = "planned"
              /\ entry.purpose = plan[r][j].purpose
              /\ ~entry.has_generated_code
              /\ entry.generated_code = <<>>

C21_Step ==
    \A r \in Runs :
        (pc[r] = "idle" /\ pc'[r] = "planning")
        => /\ context'[r].plan = plan[r]
           /\ context'[r].dependency_order = <<>>
           /\ context'[r].generation_session \in 1..Len(heap')
           /\ C21_FreshSession(r, heap'[context'[r].generation_session])

\* C21: build_generation_context returns a context whose generation_session
\* has one entry per planned artifact, each with status planned and no
\* generated content, and whose dependency_order is empty; both are still so
\* when the planner is asked for the order.
C21_BuiltContext ==
    /\ [](\A r \in Runs :
              pc[r] = "planning"
              => /\ context[r].dependency_order = <<>>
                 /\ C21_FreshSession(r, SessionRecord(r)))
    /\ [][C21_Step]_vars

\* The context of a plan of three artifacts has been built.
C21_Witness ==
    /\ pc[1] = "planning"
    /\ Len(plan[1]) = 3
    /\ Cardinality(DOMAIN SessionRecord(1)) = 3
    /\ SessionRecord(1)[FScene].status = "planned"
    /\ context[1].dependency_order = <<>>

\* The run has returned: the result mapping from line 85 or {} from line 91.
Terminated(r) == pc[r] \in {"done", "fatal"}

C22_State ==
    \A r \in Runs :
        /\ pc[r] = "done" => result[r] = generated_files_this_session[r]
        /\ pc[r] = "fatal" => result[r] = EmptyMap
        /\ \A pos \in 1..Len(generation_order[r]) :
               /\ Cardinality(EventsAt(r, "strategy", pos)) <= 1
               /\ Cardinality(EventsAt(r, "store", pos) \cup EventsAt(r, "failed", pos)
                                  \cup EventsAt(r, "skip", pos)) <= 1
               /\ pos >= idx[r] =>
                      (EventsAt(r, "store", pos) \cup EventsAt(r, "failed", pos)
                           \cup EventsAt(r, "skip", pos)) = {}

C22_Step ==
    \A r \in Runs :
        /\ Terminated(r) => (pc'[r] = pc[r] /\ result'[r] = result[r])
        /\ pc[r] \in {"loop", "streaming", "resolve"} => idx'[r] \in {idx[r], idx[r] + 1}
        \* a position that did not produce content is left behind
        /\ (pc[r] = "resolve" /\ ~has_content[r] /\ pc'[r] # pc[r]) => idx'[r] = idx[r] + 1

\* C22: with a finite planner order and finite model streams every run
\* terminates, in Done with the result mapping or in Fatal with the empty
\* mapping, and stays there; each position of the order is processed at most
\* once and a position that failed is never attempted again.
C22_Terminates ==
    /\ \A r \in Runs : (pc[r] # "off") ~> Terminated(r)
    /\ [](C22_State)
    /\ [][C22_Step]_vars

\* A run of two positions is Done although its first position failed: the
\* position was attempted once and the result has its placeholder.
C22_Witness ==
    /\ pc[1] = "done"
    /\ Len(generation_order[1]) = 2
    /\ generation_order[1][1] # generation_order[1][2]
    /\ Cardinality(EventsAt(1, "strategy", 1)) = 1
    /\ EventsAt(1, "failed", 1) # {}
    /\ EventsAt(1, "strategy", 2) # {}
    /\ result[1] = generated_files_this_session[1]
    /\ result[1][generation_order[1][1]] = PlaceholderText(generation_order[1][1])

\* The step is a step of run r: its position, its loop index or its stream moves.
StepOf(r) == <<pc[r], idx[r], stream[r]>>' # <<pc[r], idx[r], stream[r]>>

\* What a run owns: its context, its outputs, its record, and the session
\* record its context refers to.
Owned(r) ==
    <<context[r], generated_files_this_session[r], result[r], contexts[r], events[r],
      prompt[r], generated_content[r],
      IF Built(r) THEN SessionRecord(r) ELSE EmptyMap>>

\* A step of one run writes nothing the other run owns.
C23_Step ==
    \A r, o \in Runs : (r # o /\ StepOf(r)) => Owned(o)' = Owned(o)

\* The symbols the index of run r can hold from its own run: those the indexer
\* found at the start and those of its own context updates.
OwnIndexEntries(r) ==
    JsonOfMap(initial_project_index(existing_files[r], project_active))
    \cup {<<sym, ModulePath(events[r][k].filename)>> :
              sym \in SymbolNames, k \in {j \in EventIds(r) : events[r][j].ev = "update"}}

\* Each run has its own session record, holding its own plan; what a run reads
\* into a prompt and what it returns is its own index and its own outputs.
C23_State ==
    \A r \in Runs :
        /\ \A o \in Runs \ {r} :
               (Built(r) /\ Built(o))
               => context[r].generation_session # context[o].generation_session
        /\ Built(r) =>
               /\ context[r].plan = plan[r]
               /\ DOMAIN SessionRecord(r) = PlannedFilenames(plan[r])
               /\ \A f \in DOMAIN SessionRecord(r) :
                      SessionRecord(r)[f].status = "completed"
                      <=> \E k \in EventIds(r) :
                              events[r][k].ev = "store" /\ events[r][k].filename = f
               /\ JsonOfMap(context[r].project_index) \subseteq OwnIndexEntries(r)
        /\ CoderPromptBuilt(r) =>
               /\ prompt[r].symbol_index_json \subseteq OwnIndexEntries(r)
               /\ \A entry \in prompt[r].generated_files_code_json :
                      \E k \in EventIds(r) :
                          /\ events[r][k].ev = "store"
                          /\ entry = <<events[r][k].filename, events[r][k].content>>
        /\ \A f \in DOMAIN result[r] :
               \E k \in EventIds(r) :
                   events[r][k].ev \in {"store", "failed"} /\ events[r][k].filename = f

\* C23: when two invocations of coordinate_generation are interleaved, each
\* builds its own context and session record, and no step of one run reads or
\* writes the session record, the project index or the result mapping of the
\* other run.
C23_RunsIsolated == [](C23_State) /\ [][C23_Step]_vars

\* The second invocation built its context after the first one, generated
\* models.py and returned while the first one is still streaming its own
\* models.py, whose session entry is still planned.
C23_Witness ==
    /\ pc[1] = "streaming"
    /\ CurrentFilename(1) = FModels
    /\ emitted[1] # <<>>
    /\ context[1].generation_session = 1
    /\ pc[2] = "done"
    /\ context[2].generation_session = 2
    /\ result[2] = [f \in {FModels} |-> <<"U">>]
    /\ SessionRecord(2)[FModels].status = "completed"
    /\ SessionRecord(1)[FModels].status = "planned"
    /\ "U" \notin DOMAIN context[1].project_index

\* The cancellations in the record of run r.
Cancellations(r) == {k \in EventIds(r) : events[r][k].ev = "cancel"}

\* After a cancellation nothing more is recorded for the run: no strategy is
\* invoked, nothing is stored or updated; the run has ended without a result,
\* and the entries that were completed are as they were, content included.
C24_State ==
    \A r \in Runs : \A k \in Cancellations(r) :
        /\ k = Len(events[r])
        /\ pc[r] = "cancelled"
        /\ result[r] = EmptyMap
        /\ \A f \in DOMAIN events[r][k].session :
               events[r][k].session[f].status = "completed"
               => SessionRecord(r)[f] = events[r][k].session[f]

\* The cancellation itself: the artifact in flight is abandoned, and neither
\* the session record nor the outputs stored so far are touched.
C24_Step ==
    \A r \in Runs :
        (Cancellations(r)' # Cancellations(r))
        => /\ heap' = heap
           /\ context'[r] = context[r]
           /\ generated_files_this_session'[r] = generated_files_this_session[r]
           /\ idx'[r] = idx[r]

SessionRefs == 1..Len(heap)

\* Content was stored for filename at some position of run r.
StoredOnce(r, filename) ==
    \E k \in EventIds(r) : events[r][k].ev = "store" /\ events[r][k].filename = filename

\* The output of run r for filename is the failure placeholder.
HasPlaceholder(r, filename) ==
    /\ filename \in DOMAIN generated_files_this_session[r]
    /\ generated_files_this_session[r][filename] = PlaceholderText(filename)

\* What C25 and its amendment share: the status is planned or completed, never
\* failed; it changes only from planned to completed; the step that stores a
\* placeholder leaves the session record as it was.
C25_StatusValues ==
    \A h \in SessionRefs : \A f \in DOMAIN heap[h] :
        /\ heap[h][f].status \in {"planned", "completed", "failed"}
        /\ heap[h][f].status # "failed"

C25_Step ==
    /\ \A h \in SessionRefs : \A f \in DOMAIN heap[h] :
           /\ f \in DOMAIN heap'[h]
           /\ heap'[h][f].status # heap[h][f].status
              => (heap[h][f].status = "planned" /\ heap'[h][f].status = "completed")
    /\ \A r \in Runs :
           (pc[r] = "resolve" /\ ~has_content[r] /\ pc'[r] # pc[r])
           => /\ heap' = heap
              /\ CurrentFilename(r) \in DOMAIN generated_files_this_session'[r]
              /\ generated_files_this_session'[r][CurrentFilename(r)]
                     = PlaceholderText(CurrentFilename(r))

NoDuplicates(r) ==
    \A i, j \in 1..Len(generation_order[r]) :
        generation_order[r][i] = generation_order[r][j] => i = j

\* The result entry of filename came from content its strategy produced.
FromProducedContent(r, filename) ==
    /\ filename \in DOMAIN result[r]
    /\ \E k \in EventIds(r) :
           /\ events[r][k].ev = "store"
           /\ events[r][k].filename = filename
           /\ events[r][k].content = result[r][filename]
    /\ ~\E k \in EventIds(r) : events[r][k].ev = "failed" /\ events[r][k].filename = filename

\* C26: at the end of a non-fatal run whose order has no duplicates, the
\* session entry of a planned filename is completed if and only if the result
\* has an entry for it that came from produced content, not the placeholder;
\* the content stored in the entry is then the result's content, which is the
\* cleaned text.
C26_SessionMatchesResult ==
    \A r \in Runs :
        (pc[r] = "done" /\ NoDuplicates(r))
        => \A f \in PlannedFilenames(plan[r]) :
               /\ f \in DOMAIN SessionRecord(r)
               /\ SessionRecord(r)[f].status = "completed" <=> FromProducedContent(r, f)
               /\ SessionRecord(r)[f].status = "completed"
                  => /\ SessionRecord(r)[f].has_generated_code
                     /\ SessionRecord(r)[f].generated_code = result[r][f]
                     /\ robust_clean_llm_output(result[r][f]) = result[r][f]
               /\ SessionRecord(r)[f].status # "completed"
                  => /\ ~SessionRecord(r)[f].has_generated_code
                     /\ f \in DOMAIN result[r] => result[r][f] = PlaceholderText(f)

\* Of three planned artifacts one was completed from a fenced response, one
\* failed and one was not in the order.
C26_Witness ==
    /\ pc[1] = "done"
    /\ NoDuplicates(1)
    /\ Len(plan[1]) = 3
    /\ generation_order[1] = <<FModels, FService>>
    /\ result[1][FModels] = <<"V">>
    /\ SessionRecord(1)[FModels].status = "completed"
    /\ SessionRecord(1)[FModels].generated_code = <<"V">>
    /\ result[1][FService] = PlaceholderText(FService)
    /\ SessionRecord(1)[FService].status = "planned"
    /\ SessionRecord(1)[FScene].status = "planned"
    /\ FScene \notin DOMAIN result[1]

\* The stream of the artifact in flight of run r ended without an increment:
\* _generate_single_file returned the empty string.
ReturnedEmpty(r) ==
    /\ pc[r] = "resolve"
    /\ has_content[r]
    /\ prompt[r].template # "none"
    /\ emitted[r] = <<>>

C27_Step ==
    \A r \in Runs :
        \* the stream ends before any increment: the empty string is returned
        /\ (pc[r] = "streaming" /\ emitted[r] = <<>> /\ pc'[r] = "resolve" /\ has_content'[r])
           => (generated_content'[r] = <<>> /\ ReturnedEmpty(r)')
        \* the empty string takes the content branch
        /\ (ReturnedEmpty(r) /\ pc'[r] # pc[r])
           => LET filename == CurrentFilename(r)
                  n == Len(events[r])
              IN /\ generated_content[r] = <<>>
                 /\ pc'[r] = "loop"
                 /\ idx'[r] = idx[r] + 1
                 /\ filename \in DOMAIN generated_files_this_session'[r]
                 /\ generated_files_this_session'[r][filename] = <<>>
                 /\ generated_files_this_session'[r][filename] # PlaceholderText(filename)
                 /\ Len(events'[r]) = n + 3
                 /\ events'[r][n + 1].ev = "store"
                 /\ events'[r][n + 1].content = <<>>
                 /\ events'[r][n + 2].ev = "update"
                 /\ events'[r][n + 2].filename = filename
                 /\ heap'[context[r].generation_session][filename].status = "completed"
                 /\ heap'[context[r].generation_session][filename].has_generated_code
                 /\ heap'[context[r].generation_session][filename].generated_code = <<>>

\* The positions of run r whose stored content is the empty string.
EmptyStores(r) ==
    {k \in EventIds(r) : events[r][k].ev = "store" /\ events[r][k].content = <<>>}

\* C27: a stream that completes without yielding an increment counts as
\* content produced: the empty string is stored for the filename,
\* update_session_context is invoked, the session entry becomes completed and
\* no placeholder is stored; the result of the run maps the filename to the
\* empty string (unless a later position attempted the filename again).
C27_EmptyStreamIsContent ==
    /\ [](\A r \in Runs : \A k \in EmptyStores(r) :
              /\ EventsAt(r, "failed", events[r][k].pos) = {}
              /\ (pc[r] = "done" /\ ~AttemptedAgain(r, k))
                 => /\ result[r][events[r][k].filename] = <<>>
                    /\ SessionRecord(r)[events[r][k].filename].status = "completed")
    /\ [][C27_Step]_vars

\* The stream for models.py yielded nothing: the run is Done, the result maps
\* models.py to the empty string and its entry is completed.
C27_Witness ==
    /\ pc[1] = "done"
    /\ generation_order[1] = <<FModels>>
    /\ FModels \in PlannedFilenames(plan[1])
    /\ EmptyStores(1) # {}
    /\ EventsAt(1, "update", 1) # {}
    /\ result[1] = [f \in {FModels} |-> <<>>]
    /\ SessionRecord(1)[FModels].status = "completed"

\* The context updates of run r in which extraction raised.
RaisedUpdates(r) == {k \in EventIds(r) : events[r][k].ev = "update" /\ events[r][k].raised}

RECURSIVE MergedSince(_, _, _)
\* The index given to update k, with the symbols merged by the updates
\* recorded after k, up to entry n.
MergedSince(r, k, n) ==
    IF n <= k THEN events[r][k].given_index
    ELSE LET before == MergedSince(r, k, n - 1)
             e == events[r][n]
         IN IF e.ev = "update"
            THEN Update(before, [sym \in e.symbols |-> ModulePath(e.filename)])
            ELSE before

\* The failed extraction itself: the entry is completed with the content, the
\* output keeps the cleaned content, the index stays as it was, the loop goes on.
C28_Step ==
    \A r \in Runs :
        ExtractionRaisedNow(r)
        => LET filename == CurrentFilename(r)
               cleaned_content == robust_clean_llm_output(generated_content[r])
           IN /\ EndsWith(filename, ".py")
              /\ SessionRecord(r)'[filename].status = "completed"
              /\ SessionRecord(r)'[filename].generated_code = cleaned_content
              /\ generated_files_this_session'[r][filename] = cleaned_content
              /\ context'[r].project_index = context[r].project_index
              /\ events'[r][Len(events[r]) + 2].symbols = {}
              /\ pc'[r] = "loop"
              /\ idx'[r] = idx[r] + 1

\* After it: the index of the run, and the index in the prompt of every later
\* .py artifact, is the index as it was before F, changed only by what the
\* updates of later artifacts merged; F has contributed nothing to it.
C28_State ==
    \A r \in Runs : \A k \in RaisedUpdates(r) :
        /\ pc[r] # "fatal" => context[r].project_index = MergedSince(r, k, Len(events[r]))
        /\ CoderPromptBuilt(r)
           => prompt[r].symbol_index_json = JsonOfMap(MergedSince(r, k, Len(events[r])))
        /\ (pc[r] = "done" /\ ~AttemptedAgain(r, k))
           => result[r][events[r][k].filename] # PlaceholderText(events[r][k].filename)

FailedInFlight(r) == pc[r] = "resolve" /\ ~has_content[r]

\* What C29 and its amendment share. A run that is Fatal returned the empty
\* mapping; a skip is a plan lookup miss; an exception raised while the prompt
\* is built ends the run at once, with the empty mapping and with nothing
\* recorded for the artifact, whatever the run had stored; inside the loop
\* nothing else ends the run; streaming and extraction failures do not.
C29_FatalState ==
    \A r \in Runs :
        /\ pc[r] = "fatal" => result[r] = EmptyMap
        /\ \A k \in EventIds(r) :
               events[r][k].ev = "skip"
               => events[r][k].filename \notin PlannedFilenames(plan[r])

C29_Step ==
    \A r \in Runs :
        /\ (NeedsPrompt(r) /\ PromptRaises(r) /\ StepOf(r))
           => /\ pc'[r] = "fatal"
              /\ result'[r] = EmptyMap
              /\ events'[r] = events[r]
              /\ generated_files_this_session'[r] = generated_files_this_session[r]
        /\ (pc[r] = "loop" /\ pc'[r] = "fatal") => (NeedsPrompt(r) /\ PromptRaises(r))
        /\ pc[r] \in {"streaming", "resolve"} => pc'[r] # "fatal"
        /\ ExtractionRaisedNow(r) => pc'[r] = "loop"
        /\ (FailedInFlight(r) /\ StepOf(r)) => (pc'[r] = "loop" /\ idx'[r] = idx[r] + 1)

\* C29 as stated, for the artifacts that fail: apart from a plan lookup miss
\* and an extraction failure, the failures handled per artifact are an absent
\* model and a streaming failure, both of which come after a prompt was
\* determined.
C29_Original ==
    /\ C29_FatalState
    /\ \A r \in Runs : FailedInFlight(r) => ~PromptIsEmpty(prompt[r])

\* C29 as amended: the failures handled per artifact are a plan lookup miss, a
\* prompt that is empty (a custom template that formats to the empty string),
\* an absent model, a streaming failure and an extraction failure in the
\* context update; an exception raised while the prompt is built is not: it
\* ends the run with the empty result, whatever had been completed.
C29_PromptExceptionAborts ==
    /\ [](/\ C29_FatalState
          /\ \A r \in Runs :
                 FailedInFlight(r)
                 => /\ prompt[r].template # "none"
                    /\ PromptIsEmpty(prompt[r]) => emitted[r] = <<>>)
    /\ [][C29_Step]_vars

\* player.tscn was completed and stored; then the custom template for .py
\* raised for the second artifact: the run is Fatal with the empty result.
C29_Witness ==
    /\ pc[1] = "fatal"
    /\ idx[1] = 2
    /\ generation_order[1][1] = FScene
    /\ EventsAt(1, "store", 1) # {}
    /\ FScene \in DOMAIN generated_files_this_session[1]
    /\ Suffix(generation_order[1][2]) = ".py"
    /\ generation_order[1][2] \in PlannedFilenames(plan[1])
    /\ ".py" \in DOMAIN custom_prompts[1]
    /\ FormatRaises(custom_prompts[1][".py"])
    /\ EventsAt(1, "strategy", 2) = {}
    /\ result[1] = EmptyMap

(***************************************************************************)
(* The cleaning harness: robust_clean_llm_output applied to bounded texts, *)
(* bare or wrapped in a fence, with prose around them.                     *)
(***************************************************************************)
\* "", a tag of word characters (py), and a tag with other characters (c++).
Tags == {<<>>, <<"a">>, <<"a", "+", "+">>}

\* Prose a model writes before or after its answer.
Surroundings == {<<>>, <<"a", Newline>>}

CleanInput ==
    clean_lead
    \o (IF clean_fenced THEN Wrap(clean_tag, clean_body) ELSE clean_body)
    \o clean_trail

RunsOff ==
    /\ pc = [r \in Runs |-> "off"]
    /\ plan = [r \in Runs |-> <<>>]
    /\ existing_files = [r \in Runs |-> EmptyMap]
    /\ custom_prompts = [r \in Runs |-> EmptyMap]
    /\ project_active = FALSE
    /\ RunLocalsInit

InitClean ==
    /\ RunsOff
    /\ clean_pc = "ready"
    /\ clean_lead \in Surroundings
    /\ clean_fenced \in BOOLEAN
    /\ clean_tag \in (IF clean_fenced THEN Tags ELSE {<<>>})
    /\ clean_body \in Texts(MaxTextLen)
    /\ clean_trail \in Surroundings
    /\ clean_out = <<>>
    /\ clean_out2 = <<>>

CleanOnce ==
    /\ clean_pc = "ready"
    /\ clean_out' = robust_clean_llm_output(CleanInput)
    /\ clean_pc' = "cleaned"
    /\ UNCHANGED <<clean_lead, clean_fenced, clean_tag, clean_body, clean_trail, clean_out2,
                   run_vars>>

CleanTwice ==
    /\ clean_pc = "cleaned"
    /\ clean_out2' = robust_clean_llm_output(clean_out)
    /\ clean_pc' = "recleaned"
    /\ UNCHANGED <<clean_lead, clean_fenced, clean_tag, clean_body, clean_trail, clean_out,
                   run_vars>>

NextClean == CleanOnce \/ CleanTwice

SpecClean == InitClean /\ [][NextClean]_vars

(***************************************************************************)
(* Claims about the cleaning rule                                          *)
(***************************************************************************)
HasFencedBlock(s) == MatchStarts(Strip(s)) # {}

\* C9: cleaning T wrapped in a fence (opening delimiter line with any tag, T,
\* closing delimiter line) returns T trimmed, whatever the tag.
C9_FenceRoundTrip ==
    (/\ clean_pc \in {"cleaned", "recleaned"}
     /\ clean_fenced
     /\ clean_lead = <<>>
     /\ clean_trail = <<>>)
    => clean_out = Strip(clean_body)

\* C10: cleaning is idempotent: text without a fenced block cleans to the
\* trimmed text, and cleaning any cleaned text again returns the same string.
C10_CleanIdempotent ==
    /\ (clean_pc \in {"cleaned", "recleaned"} /\ ~HasFencedBlock(CleanInput))
          => clean_out = Strip(CleanInput)
    /\ clean_pc = "recleaned" => clean_out2 = clean_out

\* A fenced text whose group kept blanks at its ends has been cleaned twice.
C10_Witness ==
    /\ clean_pc = "recleaned"
    /\ HasFencedBlock(CleanInput)
    /\ clean_body # Strip(clean_body)
    /\ clean_out # <<>>
    /\ clean_out2 = clean_out

====
